---- MODULE Spec2Model ----
(***************************************************************************)
(* flappysomnia: the client-side transaction reliability layer.            *)
(*                                                                         *)
(*   - useTransactionQueue  (src/src/hooks/useTransactionQueue.ts)         *)
(*   - useCustodialWallet   (src/src/hooks/useCustodialWallet.ts)          *)
(*   - useFlappyContract    (src/unnamed/part_000)                         *)
(*   - Game                 (src/src/components/Game.tsx)                  *)
(*                                                                         *)
(* Every call of the hook useTransactionQueue() owns its own React state   *)
(* (queue, isPending); all of them read and write the same localStorage    *)
(* key.  The hook instances of the running page are the elements of Inst.  *)
(***************************************************************************)
EXTENDS Integers, Sequences, FiniteSets, TLC

VARIABLES
  queue,      \* [Inst -> Seq(QueuedTransaction)]   useState queue
  isPending,  \* [Inst -> BOOLEAN]                  useState isPending
  dirty,      \* [Inst -> BOOLEAN]  queue changed, the [queue] effect has not run yet
  storage,    \* localStorage[TRANSACTION_STORAGE_KEY]
  timers,     \* queue snapshots held by the 100 ms forced-save timeouts
  now,        \* Date.now(), in hours (in minutes under SpecBoard)
  \* history of the harness run (not program state)
  wasConfirmed,  \* per record of the harness queue: has it ever been 'confirmed'
  last,          \* the last harness call, the number of records it dropped,
                 \* whether it found what it looked up (the id, the stored list),
                 \* whether it asked a confirmed record to be pending with a hash
  \* the page: Game, useFlappyContract
  connected,     \* state.contract, state.signer and address are set
  pcReset,       \* resetGameStateAndReconnect in progress
  gameState,     \* Game.tsx gameState
  isLoading,     \* Game.tsx isLoading
  error,         \* Game.tsx error (which message, or "none")
  pcStart,       \* where handleStartGame / startGame is suspended
  attempt,       \* number of start attempts so far (the Date.now() of their ids)
  startResult,   \* outcome of the last startGame call
  pcEnd,         \* where handleEndGame / endGame is suspended
  endResult,     \* outcome of the last endGame call
  localScores,   \* localStorage['flappySomnia_localScores']
  nextGameId,    \* the game id the contract assigns next
  \* useCustodialWallet under Game
  pcWallet,      \* where initializeWallet / requestFunds is suspended
  walletReady,   \* state.wallet and state.isInitialized are set
  walletLoading, \* state.isLoading
  nInit,         \* number of initializeWallet runs so far (the Date.now() of their ids)
  canProcess,    \* what canProcessTransaction returns in the closure of the running call
  \* sendTransactionWithRetry (useFlappyContract)
  sPc,             \* the await the call is suspended at
  currentEndpoint, \* index into RPC_ENDPOINTS, from 0
  wallet,          \* the hook's wallet is set
  gasPrice,        \* in wei (the 20e9 of the fallback price is written as 20)
  gasLimit,        \* options.gasLimit (0: not set)
  result,          \* what the call returned or threw
  trace,           \* history of the call: what happened on which endpoint
  caught,          \* history of the call: the errors its catch block handled
  \* useLeaderboard and what it reads
  leaderboardGames,  \* the contract: the games behind getLeaderboardGameIds / getGameInfo
  leaderboardCache,  \* localStorage[LEADERBOARD_CACHE_KEY]
  fuseQueue,         \* localStorage['flappyFuse_transactionQueue']
  fuseScores,        \* localStorage['flappyFuse_localScores']
  entries,           \* useState entries
  loading,           \* useState loading
  leaderboardError,  \* useState error of useLeaderboard
  isRealData,        \* useState isRealData
  pcFetch,           \* the await fetchLeaderboard is suspended at
  endpointIndex,     \* index into RPC_ENDPOINTS of the endpoint the loop is at, from 0
  cachedData,        \* the cachedData of the running fetchLeaderboard
  runs,              \* history: what each finished fetchLeaderboard found and left exposed
  \* the jumps of a session: Game and useCustodialWallet
  pendingJumps,      \* useCustodialWallet useState pendingJumps
  processedJumps,    \* useCustodialWallet useState processedJumps
  totalJumps,        \* useCustodialWallet useState totalJumps
  jumpTasks,         \* microtasks queued by Promise.resolve().then, each holding its batch
  velocity,          \* Game.tsx velocity: "0", "JUMP_STRENGTH" or "falling" (any other value)
  hasStartedMoving,  \* Game.tsx hasStartedMoving
  loopState          \* the gameState in the closure of the scheduled gameLoop

qvars == <<queue, isPending, dirty, storage, timers, now>>
hvars == <<wasConfirmed, last>>
gvars == <<connected, pcReset, gameState, isLoading, error, pcStart, attempt,
           startResult, pcEnd, endResult, localScores, nextGameId>>
wvars == <<pcWallet, walletReady, walletLoading, nInit, canProcess>>
vars == <<queue, isPending, dirty, storage, timers, now, wasConfirmed, last,
          connected, pcReset, gameState, isLoading, error, pcStart, attempt,
          startResult, pcEnd, endResult, localScores, nextGameId,
          pcWallet, walletReady, walletLoading, nInit, canProcess,
          sPc, currentEndpoint, wallet, gasPrice, gasLimit, result, trace, caught,
          leaderboardGames, leaderboardCache, fuseQueue, fuseScores, entries,
          loading, leaderboardError, isRealData, pcFetch, endpointIndex,
          cachedData, runs, pendingJumps, processedJumps, totalJumps, jumpTasks,
          velocity, hasStartedMoving, loopState>>
svars == <<sPc, currentEndpoint, wallet, gasPrice, gasLimit, result, trace, caught>>
bvars == <<leaderboardGames, leaderboardCache, fuseQueue, fuseScores, entries,
           loading, leaderboardError, isRealData, pcFetch, endpointIndex,
           cachedData, runs>>
jvars == <<pendingJumps, processedJumps, totalJumps, jumpTasks, velocity,
           hasStartedMoving, loopState>>

(***************************************************************************)
(* Bounds of the model.                                                    *)
(***************************************************************************)
MaxQueue == 2     \* records one harness queue may hold
MaxTime == 2      \* last clock value
MaxTimers == 2    \* forced-save timeouts outstanding at once
MaxStarts == 2    \* start attempts
MaxGames == 2     \* games the contract hands out
MaxScore == 1     \* last score a session reaches
MaxInits == 1     \* runs of initializeWallet
MaxRuns == 2      \* runs of fetchLeaderboard
MaxBoardTime == 6 \* last clock value of the leaderboard, in minutes

(***************************************************************************)
(* Program constants.                                                      *)
(***************************************************************************)
OneHour == 1      \* 60 * 60 * 1000 ms, in hours
CacheMaxAge == 5  \* maxAgeMs = 5 * 60 * 1000, in minutes
TopN == 10        \* validEntries.slice(0, 10)

Undefined == "undefined"

\* the hook instances: Game.tsx:91, part_000:91, useCustodialWallet.ts:38
\* (once under Game.tsx:76, once under part_000:90)
Inst == {"game", "contract", "wallet", "cwallet"}

Status == {"pending", "confirmed", "failed"}

NoData == [tag |-> Undefined, gameId |-> 0, finalScore |-> -1, localOnly |-> FALSE]

\* data: { address }
SomeData == [tag |-> "address", gameId |-> 0, finalScore |-> -1, localOnly |-> FALSE]

QueuedTransaction(id, type, status, timestamp, hash, data, err) ==
  [id |-> id, type |-> type, status |-> status, timestamp |-> timestamp,
   hash |-> hash, data |-> data, error |-> err]

Fields == {"id", "type", "status", "timestamp", "hash", "data", "error"}

\* queue.some(tx => tx.status === 'pending')
hasPending(q) == \E k \in 1..Len(q) : q[k].status = "pending"

(***************************************************************************)
(* localStorage value of the queue key: missing, unparsable, or the JSON   *)
(* text of a list.  JSON.stringify drops the keys whose value is           *)
(* undefined, JSON.parse gives them back as missing keys, which read as    *)
(* undefined: a record of the model carries Undefined in both cases.       *)
(***************************************************************************)
StorageNull == [kind |-> "null", list |-> <<>>]
StorageCorrupt == [kind |-> "corrupt", list |-> <<>>]
stringify(q) == [kind |-> "json", list |-> q]
parseOk(s) == s.kind = "json"
parse(s) == s.list

(***************************************************************************)
(* Pure parts of the hook's operations: the updater functions handed to    *)
(* setQueue.                                                               *)
(***************************************************************************)
addToQueue(q, tx) == Append(q, tx)

\* prevQueue.findIndex(tx => tx.id === id); 0 stands for -1
findIndex(q, id) ==
  IF \E k \in 1..Len(q) : q[k].id = id
  THEN CHOOSE k \in 1..Len(q) : q[k].id = id /\ \A j \in 1..(k-1) : q[j].id # id
  ELSE 0

\* { ...updates, status: updates.status ? String(updates.status) : undefined }
normalizedUpdates(updates) ==
  [f \in (DOMAIN updates) \cup {"status"} |->
     IF f = "status"
     THEN IF "status" \in DOMAIN updates THEN updates.status ELSE Undefined
     ELSE updates[f]]

\* { ...tx, ...upd }
spread(tx, upd) ==
  [f \in Fields |-> IF f \in DOMAIN upd THEN upd[f] ELSE tx[f]]

\* const { status, ...otherUpdates } = normalizedUpdates
otherUpdates(n) == [f \in (DOMAIN n) \ {"status"} |-> n[f]]

\* variant: the whole update is dropped when it asks a confirmed record to
\* be pending
mergeRecordOrIgnore(tx, updates) ==
  LET n == normalizedUpdates(updates) IN
  IF n.status = "pending" /\ tx.status = "confirmed"
  THEN tx
  ELSE spread(tx, n)

mergeRecord(tx, updates) ==
  LET n == normalizedUpdates(updates) IN
  IF n.status = "pending" /\ tx.status = "confirmed"
  THEN spread(tx, otherUpdates(n))
  ELSE spread(tx, n)

\* variant: an id that is not found adds a record
updateTransactionOrAdd(q, id, updates) ==
  LET index == findIndex(q, id) IN
  IF index = 0
  THEN Append(q, mergeRecord(QueuedTransaction(id, id[1], "pending", 0, Undefined,
                                                NoData, Undefined), updates))
  ELSE [q EXCEPT ![index] = mergeRecord(q[index], updates)]

updateTransaction(q, id, updates) ==
  LET index == findIndex(q, id) IN
  IF index = 0 THEN q
  ELSE [q EXCEPT ![index] = mergeRecord(q[index], updates)]

\* variant: the filter looks at the age only
RECURSIVE filterRecentAgeOnly(_, _)
filterRecentAgeOnly(q, oneHourAgo) ==
  IF q = <<>> THEN <<>>
  ELSE IF Head(q).timestamp > oneHourAgo
       THEN <<Head(q)>> \o filterRecentAgeOnly(Tail(q), oneHourAgo)
       ELSE filterRecentAgeOnly(Tail(q), oneHourAgo)

RECURSIVE filterRecent(_, _)
filterRecent(q, oneHourAgo) ==
  IF q = <<>> THEN <<>>
  ELSE IF Head(q).status = "pending" \/ Head(q).timestamp > oneHourAgo
       THEN <<Head(q)>> \o filterRecent(Tail(q), oneHourAgo)
       ELSE filterRecent(Tail(q), oneHourAgo)

clearOldTransactions(q, t) == filterRecent(q, t - OneHour)

(***************************************************************************)
(* setQueue: a new array makes React render again and run the [queue]      *)
(* effect; handing back the previous array does neither.                   *)
(***************************************************************************)
setQueue(i, q, newArray) ==
  /\ queue' = [queue EXCEPT ![i] = q]
  /\ dirty' = [dirty EXCEPT ![i] = @ \/ newArray]

\* variant: the effect writes the list and leaves isPending alone
SaveEffectNoRecompute(i) ==
  /\ dirty[i]
  /\ storage' = stringify(queue[i])
  /\ dirty' = [dirty EXCEPT ![i] = FALSE]
  /\ UNCHANGED <<queue, isPending, timers, now>>

\* the effect on [queue]: write the list, recompute isPending
SaveEffect(i) ==
  /\ dirty[i]
  /\ storage' = stringify(queue[i])
  /\ isPending' = [isPending EXCEPT ![i] = hasPending(queue[i])]
  /\ dirty' = [dirty EXCEPT ![i] = FALSE]
  /\ UNCHANGED <<queue, timers, now>>

(***************************************************************************)
(* The operations the hook returns, on hook instance i.                    *)
(***************************************************************************)
AddToQueue(i, tx) ==
  /\ setQueue(i, addToQueue(queue[i], tx), TRUE)
  /\ UNCHANGED <<isPending, storage, timers, now>>

\* the updater leaves a 100 ms timeout behind when the update carries
\* status 'confirmed' and the id was found
UpdateTransaction(i, id, updates) ==
  LET found == findIndex(queue[i], id) # 0
      newQueue == updateTransaction(queue[i], id, updates)
      forced == found /\ normalizedUpdates(updates).status = "confirmed"
  IN /\ forced => Cardinality(timers) < MaxTimers
     /\ setQueue(i, newQueue, found)
     /\ timers' = IF forced THEN timers \cup {newQueue} ELSE timers
     /\ UNCHANGED <<isPending, storage, now>>

\* setTimeout(() => localStorage.setItem(KEY, JSON.stringify(newQueue)), 100)
ForcedSaveTimeout ==
  \E s \in timers :
    /\ storage' = stringify(s)
    /\ timers' = timers \ {s}
    /\ UNCHANGED <<queue, isPending, dirty, now>>

canProcessTransaction(i) == ~isPending[i]

ClearOldTransactions(i) ==
  /\ setQueue(i, clearOldTransactions(queue[i], now), TRUE)
  /\ UNCHANGED <<isPending, storage, timers, now>>

ClearQueue(i) ==
  /\ storage' = StorageNull
  /\ setQueue(i, <<>>, TRUE)
  /\ isPending' = [isPending EXCEPT ![i] = FALSE]
  /\ UNCHANGED <<timers, now>>

\* what the call does to isPending and the stored list; it returns
\* hasPending(queue[i])
checkAndFixPendingState(i) ==
  LET actuallyHasPending == hasPending(queue[i]) IN
  IF isPending[i] /\ ~actuallyHasPending
  THEN /\ isPending' = [isPending EXCEPT ![i] = FALSE]
       /\ storage' = stringify(queue[i])
  ELSE UNCHANGED <<isPending, storage>>

CheckAndFixPendingState(i) ==
  /\ checkAndFixPendingState(i)
  /\ UNCHANGED <<queue, dirty, timers, now>>

ForceSave(i) ==
  /\ storage' = stringify(queue[i])
  /\ UNCHANGED <<queue, isPending, dirty, timers, now>>

(***************************************************************************)
(* Page (re)load.  The hook instances named in order mount in that order;  *)
(* for each, the load effect reads the key and the save effect, still      *)
(* holding the initial empty list, writes "[]" over it before the loaded   *)
(* list is rendered.  Pending timeouts die with the page.                  *)
(***************************************************************************)
\* variant: a store that cannot be read raises the flag
MountFlaggingUnreadable(order) ==
  LET seen(k) == IF k = 1 THEN storage ELSE stringify(<<>>)
      pos(i) == CHOOSE k \in 1..Len(order) : order[k] = i
      mounted == {order[k] : k \in 1..Len(order)}
  IN /\ queue' = [i \in Inst |->
                    IF i \in mounted /\ parseOk(seen(pos(i)))
                    THEN parse(seen(pos(i))) ELSE <<>>]
     /\ dirty' = [i \in Inst |-> i \in mounted /\ parseOk(seen(pos(i)))]
     /\ isPending' = [i \in Inst |-> i \in mounted /\ ~parseOk(seen(pos(i)))]
     /\ storage' = stringify(<<>>)
     /\ timers' = {}
     /\ UNCHANGED now

Mount(order) ==
  LET seen(k) == IF k = 1 THEN storage ELSE stringify(<<>>)
      pos(i) == CHOOSE k \in 1..Len(order) : order[k] = i
      mounted == {order[k] : k \in 1..Len(order)}
  IN /\ queue' = [i \in Inst |->
                    IF i \in mounted /\ parseOk(seen(pos(i)))
                    THEN parse(seen(pos(i))) ELSE <<>>]
     /\ dirty' = [i \in Inst |-> i \in mounted /\ parseOk(seen(pos(i)))]
     /\ isPending' = [i \in Inst |-> FALSE]
     /\ storage' = stringify(<<>>)
     /\ timers' = {}
     /\ UNCHANGED now


(***************************************************************************)
(* The page: Game.tsx with useFlappyContract (part_000).                   *)
(* An async handler runs from one await on the provider or the wallet to   *)
(* the next in one step; React renders and runs the effects in between.    *)
(***************************************************************************)
\* pipePositions: "[]" or "pipes", a list that is not empty
INITIAL_STATE == [isPlaying |-> FALSE, isGameOver |-> FALSE, gameId |-> 0, score |-> 0,
                  totalJumps |-> 0, jumps |-> <<>>, pipePositions |-> "[]"]

NoStart == [status |-> "none", cause |-> "none", id |-> 0, gameId |-> 0]
\* verify: what the verification read of endGame gave, once the call is past it
NoEnd == [status |-> "none", cause |-> "none", gameId |-> 0, score |-> 0, verify |-> "none"]

PageIdle ==
  /\ connected = FALSE
  /\ pcReset = "idle"
  /\ gameState = INITIAL_STATE
  /\ isLoading = FALSE
  /\ error = "none"
  /\ pcStart = "idle"
  /\ attempt = 0
  /\ startResult = NoStart
  /\ pcEnd = "idle"
  /\ endResult = NoEnd
  /\ pendingJumps = <<>>
  /\ processedJumps = <<>>
  /\ totalJumps = 0
  /\ jumpTasks = <<>>
  /\ velocity = "0"
  /\ hasStartedMoving = FALSE
  /\ loopState = INITIAL_STATE
  /\ nextGameId = 1
  /\ pcWallet = "idle"
  /\ walletReady = FALSE
  /\ walletLoading = FALSE
  /\ nInit = 0
  /\ canProcess = TRUE

PageInit ==
  /\ PageIdle
  /\ localScores = <<>>

\* the order in which the hook instances are called in Game()
HookOrder == <<"cwallet", "contract", "wallet", "game">>

EffectsDone == \A i \in Inst : ~dirty[i]

\* setQueue on several hook instances in one step: f maps instances to lists
setQueues(f) ==
  /\ queue' = [i \in Inst |-> IF i \in DOMAIN f THEN f[i] ELSE queue[i]]
  /\ dirty' = [i \in Inst |-> dirty[i] \/ i \in DOMAIN f]

\* effects of one commit run in the order of the hook calls
PageSaveEffect ==
  \E k \in 1..Len(HookOrder) :
    /\ \A j \in 1..(k-1) : ~dirty[HookOrder[j]]
    /\ SaveEffect(HookOrder[k])
    /\ UNCHANGED hvars
    /\ UNCHANGED gvars
    /\ UNCHANGED wvars

\* a 100 ms timeout left by updateTransaction fires
PageForcedSaveTimeout ==
  /\ ForcedSaveTimeout
  /\ UNCHANGED hvars
  /\ UNCHANGED gvars
  /\ UNCHANGED wvars

TxHash == "0xh"

\* the records of Game.tsx:399-453 (data: walletAddress, gameId)
UiStartRecord(n, status, gameId, err) ==
  QueuedTransaction(<<"start", n>>, "start", status, now, Undefined,
    [tag |-> "walletAddress", gameId |-> gameId, finalScore |-> -1, localOnly |-> FALSE],
    err)

\* the records of startGame, part_000:483-545 (data: address, gameId)
StartRecord(n, status, hash, gameId) ==
  QueuedTransaction(<<"start", n>>, "start", status, now, hash,
    [tag |-> "address", gameId |-> gameId, finalScore |-> -1, localOnly |-> FALSE],
    Undefined)

\* the records of endGame, part_000:665-796 (data: gameId, finalScore, totalJumps)
EndRecord(gameId, finalScore, status, hash) ==
  QueuedTransaction(<<"end", gameId>>, "end", status, now, hash,
    [tag |-> "end", gameId |-> gameId, finalScore |-> finalScore, localOnly |-> FALSE],
    Undefined)

\* variant: the local record is not flagged
LocalOnlyRecordUnflagged(gameId, finalScore) ==
  QueuedTransaction(<<"end-local", gameId>>, "end", "confirmed", now, Undefined,
    [tag |-> "end", gameId |-> gameId, finalScore |-> finalScore, localOnly |-> FALSE],
    Undefined)

\* the records of part_000:827-839 and 879-891 (localOnly: true)
LocalOnlyRecord(gameId, finalScore) ==
  QueuedTransaction(<<"end-local", gameId>>, "end", "confirmed", now, Undefined,
    [tag |-> "end", gameId |-> gameId, finalScore |-> finalScore, localOnly |-> TRUE],
    Undefined)

\* localScores.push({gameId, address, score, totalJumps, timestamp})
saveScoreLocally(scores, gameId, finalScore, withAddress) ==
  Append(scores, [gameId |-> gameId, score |-> finalScore, address |-> withAddress])

(***************************************************************************)
(* connectWallet, resetGameStateAndReconnect                               *)
(***************************************************************************)
ConnectWallet ==
  /\ ~connected
  /\ pcReset = "idle"
  /\ connected' = TRUE
  /\ UNCHANGED <<pcReset, gameState, isLoading, error, pcStart, attempt,
                 startResult, pcEnd, endResult, localScores, nextGameId>>
  /\ UNCHANGED qvars
  /\ UNCHANGED hvars

\* the Reset button of the wallet panel, shown while wallet?.address is set:
\* setState({contract: null, ...}); await delay(500)
ResetGameStateAndReconnect ==
  /\ walletReady
  /\ connected
  /\ pcReset = "idle"
  /\ connected' = FALSE
  /\ pcReset' = "reconnecting"
  /\ UNCHANGED <<gameState, isLoading, error, pcStart, attempt,
                 startResult, pcEnd, endResult, localScores, nextGameId>>
  /\ UNCHANGED qvars
  /\ UNCHANGED hvars

\* return await connectWallet(): sets the contract again, or throws
ReconnectDone ==
  \E ok \in BOOLEAN :
    /\ pcReset = "reconnecting"
    /\ pcReset' = "idle"
    /\ connected' = ok
    /\ UNCHANGED <<gameState, isLoading, error, pcStart, attempt,
                   startResult, pcEnd, endResult, localScores, nextGameId>>
    /\ UNCHANGED qvars
    /\ UNCHANGED hvars

(***************************************************************************)
(* handleStartGame (Game.tsx:365-482) around startGame (part_000:460-554)  *)
(***************************************************************************)
\* the startErr handler, Game.tsx:426-458
StartErrHandler(contractQueue, cause) ==
  /\ setQueues(("game" :> addToQueue(queue["game"],
                                      UiStartRecord(attempt, "failed", 0, "startErr")))
               @@ ("contract" :> contractQueue))
  /\ error' = "startErr"
  /\ isLoading' = FALSE
  /\ pcStart' = "idle"
  /\ startResult' = [status |-> "failed", cause |-> cause, id |-> attempt, gameId |-> 0]
  /\ UNCHANGED <<connected, pcReset, gameState, attempt, pcEnd, endResult,
                 localScores, nextGameId>>
  /\ UNCHANGED <<isPending, storage, timers, now>>

HandleStartGame ==
  /\ EffectsDone
  /\ pcStart = "idle"
  /\ ~isLoading
  /\ ~gameState.isPlaying
  /\ attempt < MaxStarts
  /\ checkAndFixPendingState("game")
  /\ IF hasPending(queue["game"])
     THEN /\ error' = "pendingWait"
          /\ UNCHANGED <<queue, dirty, isLoading, pcStart, attempt>>
     ELSE IF ~connected
     THEN /\ error' = "connectFirst"
          /\ UNCHANGED <<queue, dirty, isLoading, pcStart, attempt>>
     ELSE /\ error' = "none"
          /\ isLoading' = TRUE
          /\ attempt' = attempt + 1
          /\ setQueues("game" :> addToQueue(queue["game"],
                                  UiStartRecord(attempt + 1, "pending", 0, Undefined)))
          /\ pcStart' = "switch"
  /\ UNCHANGED <<connected, pcReset, gameState, startResult, pcEnd, endResult,
                 localScores, nextGameId>>
  /\ UNCHANGED <<timers, now>>
  /\ UNCHANGED hvars

\* await switchToSomniaTestnet(); then the first addToQueue of startGame
StartSwitchDone ==
  \E ok \in BOOLEAN :
    /\ EffectsDone
    /\ pcStart = "switch"
    /\ IF ok
       THEN /\ setQueues("contract" :> addToQueue(queue["contract"],
                           StartRecord(attempt, "pending", Undefined, 0)))
            /\ pcStart' = "submit"
            /\ UNCHANGED <<connected, pcReset, gameState, isLoading, error, attempt,
                           startResult, pcEnd, endResult, localScores, nextGameId>>
            /\ UNCHANGED <<isPending, storage, timers, now>>
       ELSE StartErrHandler(queue["contract"], "switch")
    /\ UNCHANGED hvars

\* await getFeeData(); await state.contract.startGame()
StartSubmitDone ==
  \E ok \in BOOLEAN :
    /\ EffectsDone
    /\ pcStart = "submit"
    /\ IF ok
       THEN /\ setQueues("contract" :> addToQueue(queue["contract"],
                           StartRecord(attempt, "pending", TxHash, 0)))
            /\ pcStart' = "wait"
            /\ UNCHANGED <<connected, pcReset, gameState, isLoading, error, attempt,
                           startResult, pcEnd, endResult, localScores, nextGameId>>
            /\ UNCHANGED <<isPending, storage, timers, now>>
       ELSE StartErrHandler(queue["contract"], "submit")
    /\ UNCHANGED hvars

\* await Promise.race([tx.wait(1), 60 s timeout]); the GameStarted event
StartWaitDone ==
  \E outcome \in {"receipt", "noGameId", "timeout", "reverted"} :
    /\ EffectsDone
    /\ pcStart = "wait"
    /\ IF outcome = "receipt"
       THEN /\ nextGameId <= MaxGames
            /\ setQueues(("contract" :> addToQueue(queue["contract"],
                            StartRecord(attempt, "confirmed", TxHash, nextGameId)))
                         @@ ("game" :> addToQueue(queue["game"],
                            UiStartRecord(attempt, "confirmed", nextGameId, Undefined))))
            /\ startResult' = [status |-> "ok", cause |-> "none", id |-> attempt,
                                gameId |-> nextGameId]
            /\ nextGameId' = nextGameId + 1
            /\ pcStart' = "countdown"
            /\ UNCHANGED <<connected, pcReset, gameState, isLoading, error, attempt,
                           pcEnd, endResult, localScores>>
            /\ UNCHANGED <<isPending, storage, timers, now>>
       ELSE StartErrHandler(queue["contract"], outcome)
    /\ UNCHANGED hvars

\* the countdown is over: setGameState({...INITIAL_STATE, isPlaying: true, gameId})
StartCountdownDone ==
  /\ EffectsDone
  /\ pcStart = "countdown"
  /\ gameState' = [INITIAL_STATE EXCEPT !.isPlaying = TRUE, !.gameId = startResult.gameId]
  /\ isLoading' = FALSE
  /\ pcStart' = "idle"
  /\ UNCHANGED <<connected, pcReset, error, attempt, startResult, pcEnd, endResult,
                 localScores, nextGameId>>
  /\ UNCHANGED qvars
  /\ UNCHANGED hvars

\* gameLoop: a pipe passed the bird
Frame ==
  /\ gameState.isPlaying
  /\ gameState.score < MaxScore
  /\ gameState' = [gameState EXCEPT !.score = @ + 1, !.pipePositions = "pipes"]
  /\ UNCHANGED <<connected, pcReset, isLoading, error, pcStart, attempt, startResult,
                 pcEnd, endResult, localScores, nextGameId>>
  /\ UNCHANGED qvars
  /\ UNCHANGED hvars

(***************************************************************************)
(* handleEndGame (Game.tsx:484-552) around endGame (part_000:627-902)      *)
(***************************************************************************)
\* the outer catch of endGame, part_000:843-898, and the return into
\* handleEndGame: scores and contractQueue are what the call has made of the
\* local scores and of the hook's list so far
EndOuterCatch(cause, scores, contractQueue) ==
  /\ localScores' = saveScoreLocally(scores, gameState.gameId, gameState.score, FALSE)
  /\ setQueues("contract" :> addToQueue(contractQueue,
                               LocalOnlyRecord(gameState.gameId, gameState.score)))
  /\ endResult' = [status |-> "localOnly", cause |-> cause,
                   gameId |-> gameState.gameId, score |-> gameState.score,
                   verify |-> endResult.verify]
  /\ error' = "localOnly"
  /\ isLoading' = FALSE
  /\ pcEnd' = "idle"
  /\ UNCHANGED <<connected, pcReset, pcStart, attempt, startResult, nextGameId>>
  /\ UNCHANGED <<isPending, storage, timers, now>>

\* the txError handler, part_000:802-842, which rethrows into the outer catch
EndTxError(cause) ==
  EndOuterCatch(cause,
    saveScoreLocally(localScores, gameState.gameId, gameState.score, TRUE),
    addToQueue(queue["contract"], LocalOnlyRecord(gameState.gameId, gameState.score)))

\* handleEndGame of the render whose gameState is closure: finalGameState is
\* { ...gameState, isPlaying: false, isGameOver: true } of that render
HandleEndGameFrom(closure) ==
  /\ EffectsDone
  /\ closure.isPlaying
  /\ closure.gameId # 0
  /\ pcEnd = "idle"
  /\ gameState' = [closure EXCEPT !.isPlaying = FALSE, !.isGameOver = TRUE]
  /\ IF ~connected
     THEN \* endGame throws before its try block
          /\ endResult' = [status |-> "threw", cause |-> "notInitialized",
                           gameId |-> closure.gameId, score |-> closure.score,
                           verify |-> "none"]
          /\ error' = "notInitialized"
          /\ isLoading' = FALSE
          /\ UNCHANGED <<pcEnd, localScores>>
          /\ UNCHANGED qvars
          /\ UNCHANGED <<connected, pcReset, pcStart, attempt, startResult, nextGameId>>
     ELSE IF closure.gameId <= 0 \/ closure.score < 0
     THEN EndOuterCatch("invalid", localScores, queue["contract"])
     ELSE /\ isLoading' = TRUE
          /\ error' = "none"
          /\ pcEnd' = "switch"
          /\ endResult' = [endResult EXCEPT !.verify = "none"]
          /\ UNCHANGED localScores
          /\ UNCHANGED qvars
          /\ UNCHANGED <<connected, pcReset, pcStart, attempt, startResult, nextGameId>>
  /\ UNCHANGED hvars

\* a collision in gameLoop, seen from a render that holds every jump so far
HandleEndGame == HandleEndGameFrom(gameState)

\* await switchToSomniaTestnet(); then the first addToQueue of endGame
EndSwitchDone ==
  \E ok \in BOOLEAN :
    /\ EffectsDone
    /\ pcEnd = "switch"
    /\ IF ok
       THEN /\ setQueues("contract" :> addToQueue(queue["contract"],
                 EndRecord(gameState.gameId, gameState.score, "pending", Undefined)))
            /\ pcEnd' = "verify"
            /\ UNCHANGED <<connected, pcReset, isLoading, error, pcStart, attempt,
                           startResult, endResult, localScores, nextGameId>>
            /\ UNCHANGED <<isPending, storage, timers, now>>
       ELSE EndOuterCatch("switch", localScores, queue["contract"])
    /\ UNCHANGED gameState
    /\ UNCHANGED hvars

\* the errors the verification of endGame throws itself, part_000:695, 700
AlreadyEnded == "Game has already ended"

OnlyOwnGames == "You can only end games that you started"

\* what state.contract.games(gameId) and state.signer.getAddress() can give:
\* the game with its ended flag and whether its player is the signer, or an error
VerifyReads ==
  {[ok |-> TRUE, ended |-> e, mine |-> o, message |-> "none"] : e, o \in BOOLEAN}
    \cup {[ok |-> FALSE, ended |-> FALSE, mine |-> FALSE, message |-> msg] :
             msg \in {"network error", "timeout", "call revert exception"}}

\* the error the try block of the verification ends with ("none": it completes)
verifyError(read) ==
  IF ~read.ok THEN read.message
  ELSE IF read.ended THEN AlreadyEnded
  ELSE IF ~read.mine THEN OnlyOwnGames
  ELSE "none"

\* variant: every error of the verification is thrown on
rethrownAlways(message) == TRUE

\* error.message.includes('already ended') || error.message.includes('only end games')
rethrown(message) == message \in {AlreadyEnded, OnlyOwnGames}

\* await getFeeData(); await state.contract.games(gameId)
EndVerifyDone ==
  \E read \in VerifyReads :
    /\ EffectsDone
    /\ pcEnd = "verify"
    /\ IF verifyError(read) # "none" /\ rethrown(verifyError(read))
       THEN EndOuterCatch(verifyError(read), localScores, queue["contract"])
       ELSE /\ pcEnd' = "submit"
            /\ endResult' = [endResult EXCEPT !.verify =
                               IF ~read.ok THEN "unreadable"
                               ELSE IF read.ended THEN "ended"
                               ELSE IF ~read.mine THEN "otherPlayer"
                               ELSE "open"]
            /\ UNCHANGED <<connected, pcReset, isLoading, error, pcStart, attempt,
                           startResult, localScores, nextGameId>>
            /\ UNCHANGED qvars
    /\ UNCHANGED gameState
    /\ UNCHANGED hvars

\* await state.contract.endGame(gameId, finalScore, totalJumps, overrides)
EndSubmitDone ==
  \E ok \in BOOLEAN :
    /\ EffectsDone
    /\ pcEnd = "submit"
    /\ IF ok
       THEN /\ setQueues("contract" :> addToQueue(queue["contract"],
                 EndRecord(gameState.gameId, gameState.score, "pending", TxHash)))
            /\ pcEnd' = "wait"
            /\ UNCHANGED <<connected, pcReset, isLoading, error, pcStart, attempt,
                           startResult, endResult, localScores, nextGameId>>
            /\ UNCHANGED <<isPending, storage, timers, now>>
       ELSE EndTxError("submit")
    /\ UNCHANGED gameState
    /\ UNCHANGED hvars

\* await Promise.race([tx.wait(1), 60 s timeout])
EndWaitDone ==
  \E outcome \in {"receipt", "timeout", "reverted"} :
    /\ EffectsDone
    /\ pcEnd = "wait"
    /\ IF outcome = "receipt"
       THEN /\ setQueues("contract" :> addToQueue(queue["contract"],
                 EndRecord(gameState.gameId, gameState.score, "confirmed", TxHash)))
            /\ localScores' = saveScoreLocally(localScores, gameState.gameId,
                                               gameState.score, TRUE)
            /\ endResult' = [status |-> "chain", cause |-> "none",
                             gameId |-> gameState.gameId, score |-> gameState.score,
                             verify |-> endResult.verify]
            /\ isLoading' = FALSE
            /\ pcEnd' = "idle"
            /\ UNCHANGED <<connected, pcReset, error, pcStart, attempt,
                           startResult, nextGameId>>
            /\ UNCHANGED <<isPending, storage, timers, now>>
       ELSE EndTxError("wait")
    /\ UNCHANGED gameState
    /\ UNCHANGED hvars

\* Play Again
resetGame ==
  /\ gameState.isGameOver
  /\ ~isLoading
  /\ gameState' = INITIAL_STATE
  /\ error' = "none"
  /\ UNCHANGED <<connected, pcReset, isLoading, pcStart, attempt, startResult,
                 pcEnd, endResult, localScores, nextGameId>>
  /\ UNCHANGED qvars
  /\ UNCHANGED hvars

\* the page is loaded again: every hook instance mounts, React state is new,
\* localStorage and the chain stay
Reload ==
  /\ EffectsDone
  /\ Mount(HookOrder)
  /\ connected' = FALSE
  /\ pcReset' = "idle"
  /\ gameState' = INITIAL_STATE
  /\ isLoading' = FALSE
  /\ error' = "none"
  /\ pcStart' = "idle"
  /\ startResult' = NoStart
  /\ pcEnd' = "idle"
  /\ endResult' = NoEnd
  /\ pcWallet' = "idle"
  /\ walletReady' = FALSE
  /\ walletLoading' = FALSE
  /\ canProcess' = TRUE
  /\ UNCHANGED <<attempt, localScores, nextGameId, nInit>>
  /\ UNCHANGED hvars


(***************************************************************************)
(* initializeWallet (useCustodialWallet.ts:179-349) with requestFunds      *)
(* (86-176), started by the effect of Game.tsx:636-646.                    *)
(***************************************************************************)
InitId == <<"init", nInit>>
FundId == <<"fund", nInit>>

Quiescent == EffectsDone /\ timers = {}

\* the rest of the page while the wallet hook works; only the message of
\* Game changes, when initializeWallet rejects
WalletFrame(err) ==
  /\ error' = IF err THEN "walletInit" ELSE error
  /\ UNCHANGED <<connected, pcReset, gameState, isLoading, pcStart, attempt,
                 startResult, pcEnd, endResult, localScores, nextGameId>>
  /\ UNCHANGED <<isPending, storage, now, nInit>>
  /\ UNCHANGED hvars

\* the catch of initializeWallet, 330-345, entered with list q
InitializeWalletFailed(q) ==
  /\ setQueues("wallet" :> updateTransaction(q, InitId,
                              [status |-> "failed", error |-> "message"]))
  /\ UNCHANGED timers
  /\ pcWallet' = "idle"
  /\ walletReady' = FALSE
  /\ walletLoading' = FALSE
  /\ UNCHANGED canProcess
  /\ WalletFrame(TRUE)

\* the end of initializeWallet, 310-328, entered with list q and the
\* snapshots the confirmed updates of requestFunds left behind
InitializeWalletDone(q, snapshots) ==
  LET newQueue == updateTransaction(q, InitId,
                    [status |-> "confirmed", data |-> SomeData])
  IN /\ setQueues("wallet" :> newQueue)
     /\ timers' = timers \cup snapshots \cup {newQueue}
     /\ pcWallet' = "idle"
     /\ walletReady' = TRUE
     /\ walletLoading' = FALSE
     /\ UNCHANGED canProcess
     /\ WalletFrame(FALSE)

\* the catch of requestFunds, 159-175, then the two catches of
\* initializeWallet, 296-303 and 330-345
RequestFundsFailed(q) ==
  InitializeWalletFailed(
    updateTransaction(
      updateTransaction(q, FundId, [status |-> "failed", error |-> "message"]),
      InitId, [status |-> "failed", error |-> "message"]))

\* the effect of Game.tsx:636-646 calls initializeWallet()
InitializeWallet ==
  /\ Quiescent
  /\ connected
  /\ ~walletReady
  /\ ~walletLoading
  /\ pcWallet = "idle"
  /\ nInit < MaxInits
  /\ IF ~canProcessTransaction("wallet")
     THEN /\ UNCHANGED <<queue, dirty, timers, pcWallet, walletReady, walletLoading,
                         canProcess>>
          /\ WalletFrame(TRUE)
     ELSE /\ setQueues("wallet" :> addToQueue(queue["wallet"],
               QueuedTransaction(<<"init", nInit + 1>>, "start", "pending", now,
                                 Undefined, NoData, Undefined)))
          /\ canProcess' = canProcessTransaction("wallet")
          /\ walletLoading' = TRUE
          /\ pcWallet' = "create"
          /\ nInit' = nInit + 1
          /\ UNCHANGED <<timers, walletReady>>
          /\ error' = error
          /\ UNCHANGED <<connected, pcReset, gameState, isLoading, pcStart, attempt,
                         startResult, pcEnd, endResult, localScores, nextGameId>>
          /\ UNCHANGED <<isPending, storage, now>>
          /\ UNCHANGED hvars

\* the loop over RPC_ENDPOINTS that creates the wallet, 221-259
WalletCreateDone ==
  \E walletCreated \in BOOLEAN :
    /\ Quiescent
    /\ pcWallet = "create"
    /\ IF walletCreated
       THEN /\ setQueues("wallet" :> updateTransaction(queue["wallet"], InitId,
                                        [data |-> SomeData]))
            /\ pcWallet' = "balance"
            /\ UNCHANGED <<timers, walletReady, walletLoading, canProcess>>
            /\ WalletFrame(FALSE)
       ELSE InitializeWalletFailed(updateTransaction(queue["wallet"], InitId,
                                     [status |-> "failed", error |-> "message"]))

\* the loop over RPC_ENDPOINTS that reads the balance, 279-289, and the
\* entry of requestFunds, 86-106
WalletBalanceDone ==
  \E fund \in BOOLEAN :
    /\ Quiescent
    /\ pcWallet = "balance"
    /\ IF ~fund
       THEN InitializeWalletDone(queue["wallet"], {})
       ELSE IF ~canProcess
       THEN InitializeWalletFailed(updateTransaction(queue["wallet"], InitId,
                                     [status |-> "failed", error |-> "message"]))
       ELSE /\ setQueues("wallet" :> addToQueue(queue["wallet"],
                 QueuedTransaction(FundId, "start", "pending", now,
                                   Undefined, SomeData, Undefined)))
            /\ pcWallet' = "fundBalance"
            /\ UNCHANGED <<timers, walletReady, walletLoading, canProcess>>
            /\ WalletFrame(FALSE)

\* requestFunds: await provider.getBalance(address)
FundBalanceDone ==
  \E outcome \in {"enough", "low", "error"} :
    /\ Quiescent
    /\ pcWallet = "fundBalance"
    /\ IF outcome = "enough"
       THEN LET q == updateTransaction(queue["wallet"], FundId,
                       [status |-> "confirmed", data |-> SomeData])
            IN InitializeWalletDone(q, {q})
       ELSE IF outcome = "low"
       THEN /\ pcWallet' = "fundSend"
            /\ UNCHANGED <<queue, dirty, timers, walletReady, walletLoading, canProcess>>
            /\ WalletFrame(FALSE)
       ELSE RequestFundsFailed(queue["wallet"])

\* requestFunds: await signer.sendTransaction(...)
FundSendDone ==
  \E ok \in BOOLEAN :
    /\ Quiescent
    /\ pcWallet = "fundSend"
    /\ IF ok
       THEN /\ setQueues("wallet" :> updateTransaction(queue["wallet"], FundId,
                                        [hash |-> TxHash, status |-> "pending"]))
            /\ pcWallet' = "fundWait"
            /\ UNCHANGED <<timers, walletReady, walletLoading, canProcess>>
            /\ WalletFrame(FALSE)
       ELSE RequestFundsFailed(queue["wallet"])

\* requestFunds: await tx.wait(); await provider.getBalance(address)
FundWaitDone ==
  \E outcome \in {"funded", "stillLow", "error"} :
    /\ Quiescent
    /\ pcWallet = "fundWait"
    /\ IF outcome = "funded"
       THEN LET q == updateTransaction(queue["wallet"], FundId, [status |-> "confirmed"])
            IN InitializeWalletDone(q, {q})
       ELSE IF outcome = "stillLow"
       THEN RequestFundsFailed(updateTransaction(queue["wallet"], FundId,
                                 [status |-> "failed", error |-> "message"]))
       ELSE RequestFundsFailed(queue["wallet"])

\* the page after its first load with nothing stored
QueueIdle ==
  /\ queue = [i \in Inst |-> <<>>]
  /\ isPending = [i \in Inst |-> FALSE]
  /\ dirty = [i \in Inst |-> FALSE]
  /\ timers = {}
  /\ now = 0
  /\ wasConfirmed = <<>>
  /\ last = [op |-> "mount", dropped |-> 0, found |-> FALSE, guarded |-> FALSE]

\* localStorage[LEADERBOARD_CACHE_KEY] when nothing is stored; a cachedData of null
NoCache == [kind |-> "null", data |-> <<>>, timestamp |-> 0]

NoCachedData == [found |-> FALSE, data |-> <<>>]

\* useLeaderboard before its first fetchLeaderboard
BoardIdle ==
  /\ entries = <<>>
  /\ loading = TRUE
  /\ leaderboardError = "null"
  /\ isRealData = FALSE
  /\ pcFetch = "idle"
  /\ endpointIndex = 0
  /\ cachedData = NoCachedData
  /\ runs = <<>>

Loaded ==
  /\ QueueIdle
  /\ storage = stringify(<<>>)
  /\ PageInit
  /\ BoardIdle
  /\ leaderboardGames = <<>>
  /\ leaderboardCache = NoCache
  /\ fuseQueue = StorageNull
  /\ fuseScores = StorageNull

(***************************************************************************)
(* sendTransactionWithRetry (part_000:96-228).  One step per await; the    *)
(* recursive call on the next endpoint is the same call with               *)
(* currentEndpoint + 1.  Amounts are in gwei.                              *)
(***************************************************************************)
RPC_ENDPOINTS == <<"https://dream-rpc.somnia.network/",
                   "https://rpc.ankr.com/somnia_testnet">>

FallbackGasPrice == 20       \* BigInt(20e9) wei
ConservativeGas == 500000    \* gasPrice * BigInt(500000)
FallbackGasLimit == 1000000  \* BigInt(1000000)

\* messages of the errors the provider or the signer can raise
ProviderErrors == {"network error", "timeout", "nonce too low", "user rejected",
                   "insufficient funds", "execution reverted", "missing response"}

\* messages of JSON-RPC errors that quote the url of the endpoint that
\* answered, as ethers' JsonRpcProvider builds them; RPC_ENDPOINTS[0] has
\* 'network' in its host name, RPC_ENDPOINTS[1] has none of the substrings
FundsErrorAt0 == "insufficient funds (url=https://dream-rpc.somnia.network/)"
RevertErrorAt0 == "execution reverted (url=https://dream-rpc.somnia.network/)"
WouldFailAt0 ==
  "Transaction would fail: execution reverted (url=https://dream-rpc.somnia.network/)"

EndpointErrors(endpoint) ==
  IF endpoint = 0 THEN {FundsErrorAt0, RevertErrorAt0} ELSE {}

\* message.includes(sub), for the substrings the function looks for
includes(message, sub) ==
  CASE sub = "network" ->
         message \in {"network error", FundsErrorAt0, RevertErrorAt0, WouldFailAt0}
    [] sub = "timeout" -> message \in {"timeout", "Transaction timeout"}
    [] sub = "nonce" -> message = "nonce too low"
    [] sub = "user rejected" -> message = "user rejected"
    [] sub = "insufficient funds" -> message \in {"insufficient funds", FundsErrorAt0}
    [] sub = "execution reverted" ->
         message \in {"execution reverted", "Transaction would fail: execution reverted",
                      RevertErrorAt0, WouldFailAt0}
    [] OTHER -> FALSE

\* `Transaction would fail: ${error.message}`, 176
wouldFail(message) ==
  IF message = RevertErrorAt0 THEN WouldFailAt0
  ELSE "Transaction would fail: execution reverted"

\* the message the catch block gives the error it throws, 209-218
errorMessage(message) ==
  IF includes(message, "insufficient funds")
  THEN "Not enough STT for gas. Please make sure your wallet has enough STT tokens."
  ELSE IF includes(message, "nonce") THEN "Transaction nonce error. Please try again."
  ELSE IF includes(message, "timeout") THEN "Transaction timed out. Please try again."
  ELSE IF includes(message, "user rejected") THEN "Please approve the transaction in MetaMask."
  ELSE "Transaction failed"

NoResult == [status |-> "none", message |-> "none"]

SubmitIdle ==
  /\ sPc = "idle"
  /\ currentEndpoint = 0
  /\ gasPrice = 0
  /\ gasLimit = 0
  /\ result = NoResult
  /\ trace = <<>>
  /\ caught = <<>>

SubmitFrame ==
  /\ UNCHANGED qvars
  /\ UNCHANGED hvars
  /\ UNCHANGED gvars
  /\ UNCHANGED wvars
  /\ UNCHANGED wallet
  /\ UNCHANGED bvars /\ UNCHANGED jvars

\* variant: the call is made again on the same endpoint
NextEndpointAgain(events) ==
  /\ currentEndpoint' = currentEndpoint
  /\ trace' = trace \o events
  /\ sPc' = "probe"
  /\ UNCHANGED <<gasPrice, gasLimit, result>>

\* the call made again with currentEndpoint + 1: the same closure, so the
\* wallet is set as before; options keeps its gasLimit
NextEndpoint(events) ==
  /\ currentEndpoint' = currentEndpoint + 1
  /\ trace' = trace \o events
  /\ sPc' = "probe"
  /\ UNCHANGED <<gasPrice, gasLimit, result>>

\* the catch block, 205-227
Catch(message, events) ==
  LET retry == /\ currentEndpoint + 1 < Len(RPC_ENDPOINTS)
               /\ (includes(message, "timeout") \/ includes(message, "network"))
  IN /\ caught' = Append(caught, [endpoint |-> currentEndpoint, stage |-> sPc,
                                  message |-> message, retried |-> retry])
     /\ IF retry
        THEN NextEndpoint(events)
        ELSE /\ result' = [status |-> "error", message |-> errorMessage(message)]
             /\ trace' = trace \o events
             /\ sPc' = "done"
             /\ UNCHANGED <<currentEndpoint, gasPrice, gasLimit>>

\* the node runs the transaction at estimateGas and at send
Failures ==
  [ok : {FALSE}, value : {0},
   message : ProviderErrors \cup
             (IF sPc \in {"estimate", "send"} THEN EndpointErrors(currentEndpoint) ELSE {})]
Outcomes(values) == [ok : {TRUE}, value : values, message : {"none"}] \cup Failures

FeePrices == {-1, 1, 3}               \* feeData.gasPrice; -1: null
Balances == {499999, 2000000, 10000000}
GasEstimates == {21000, 33333}

\* a caller calls sendTransactionWithRetry(contract, method, args, options)
SendTransactionWithRetry ==
  /\ sPc \in {"idle", "done"}
  /\ currentEndpoint' = 0
  /\ trace' = <<>>
  /\ gasPrice' = 0
  /\ gasLimit' = 0
  /\ IF ~wallet
     THEN /\ result' = [status |-> "error",
                        message |-> errorMessage("Wallet not initialized")]
          /\ caught' = <<[endpoint |-> 0, stage |-> "wallet",
                          message |-> "Wallet not initialized", retried |-> FALSE]>>
          /\ sPc' = "done"
     ELSE /\ result' = NoResult
          /\ caught' = <<>>
          /\ sPc' = "probe"
  /\ SubmitFrame

\* variant: a failed probe is logged and the call goes on with the endpoint
ProbeDoneIgnoringFailure ==
  \E o \in Outcomes({0}) :
    /\ sPc = "probe"
    /\ sPc' = "nonce"
    /\ trace' = Append(trace, <<IF o.ok THEN "probed" ELSE "probeFailed", currentEndpoint>>)
    /\ UNCHANGED <<currentEndpoint, gasPrice, gasLimit, result, caught>>
    /\ SubmitFrame

\* await provider.getBlockNumber(), 115-123
ProbeDone ==
  \E o \in Outcomes({0}) :
    /\ sPc = "probe"
    /\ IF o.ok
       THEN /\ sPc' = "nonce"
            /\ trace' = Append(trace, <<"probed", currentEndpoint>>)
            /\ UNCHANGED <<currentEndpoint, gasPrice, gasLimit, result, caught>>
       ELSE IF currentEndpoint + 1 < Len(RPC_ENDPOINTS)
       THEN /\ NextEndpoint(<< <<"probeFailed", currentEndpoint>> >>)
            /\ UNCHANGED caught
       ELSE Catch(o.message, << <<"probeFailed", currentEndpoint>> >>)
    /\ SubmitFrame

\* await signer.getAddress(); await provider.getTransactionCount(), 129-139
NonceDone ==
  \E o \in Outcomes({0}) :
    /\ sPc = "nonce"
    /\ IF o.ok
       THEN /\ sPc' = "fee"
            /\ UNCHANGED <<currentEndpoint, gasPrice, gasLimit, result, trace, caught>>
       ELSE IF currentEndpoint + 1 < Len(RPC_ENDPOINTS)
       THEN /\ NextEndpoint(<< <<"nonceFailed", currentEndpoint>> >>)
            /\ UNCHANGED caught
       ELSE Catch(o.message, << <<"nonceFailed", currentEndpoint>> >>)
    /\ SubmitFrame

\* variant: the buffer is rounded up
withBufferRoundedUp(value) == (value * 150 + 99) \div 100

\* BigInt(value) * BigInt(150) / BigInt(100), 144 and 169
withBuffer(value) == (value * 150) \div 100

\* await provider.getFeeData() gives o, 142-145
GetFeeData(o) ==
  /\ sPc = "fee"
  /\ IF o.ok
     THEN /\ gasPrice' = IF o.value # -1 THEN withBuffer(o.value)
                                         ELSE FallbackGasPrice
          /\ sPc' = "balance"
          /\ UNCHANGED <<currentEndpoint, gasLimit, result, trace, caught>>
     ELSE Catch(o.message, <<>>)
  /\ SubmitFrame

FeeDone == \E o \in Outcomes(FeePrices) : GetFeeData(o)

\* await provider.getBalance(signerAddress), 147-154
BalanceDone ==
  \E o \in Outcomes(Balances) :
    /\ sPc = "balance"
    /\ IF o.ok
       THEN LET estimatedGasCost == gasPrice * ConservativeGas IN
            IF o.value < estimatedGasCost
            THEN Catch("Insufficient funds. Need at least balance STT for gas.", <<>>)
            ELSE /\ sPc' = "estimate"
                 /\ UNCHANGED <<currentEndpoint, gasPrice, gasLimit, result, trace, caught>>
       ELSE Catch(o.message, <<>>)
    /\ SubmitFrame

\* await newContract.estimateGas[method](...) gives o, 157-180
EstimateGas(o) ==
  /\ sPc = "estimate"
  /\ IF o.ok
     THEN /\ gasLimit' = withBuffer(o.value)
          /\ sPc' = "send"
          /\ UNCHANGED <<currentEndpoint, gasPrice, result, trace, caught>>
     ELSE IF includes(o.message, "insufficient funds")
     THEN Catch("Not enough STT for gas. Please make sure your wallet has enough STT tokens.",
                <<>>)
     ELSE IF includes(o.message, "execution reverted")
     THEN Catch(wouldFail(o.message), <<>>)
     ELSE /\ gasLimit' = FallbackGasLimit
          /\ sPc' = "send"
          /\ UNCHANGED <<currentEndpoint, gasPrice, result, trace, caught>>
  /\ SubmitFrame

EstimateDone == \E o \in Outcomes(GasEstimates) : EstimateGas(o)

\* await newContract[method](...args, overrides), 183-189
SendDone ==
  \E o \in Outcomes({0}) :
    /\ sPc = "send"
    /\ IF o.ok
       THEN /\ trace' = Append(trace, <<"sent", currentEndpoint>>)
            /\ sPc' = "wait"
            /\ UNCHANGED <<currentEndpoint, gasPrice, gasLimit, result, caught>>
       ELSE Catch(o.message, <<>>)
    /\ SubmitFrame

\* await Promise.race([tx.wait(), 30 s timeout]), 194-203
WaitDone ==
  \E o \in Outcomes({0, 1}) :
    /\ sPc = "wait"
    /\ IF o.ok /\ o.value = 1
       THEN /\ result' = [status |-> "receipt", message |-> "none"]
            /\ trace' = Append(trace, <<"mined", currentEndpoint>>)
            /\ sPc' = "done"
            /\ UNCHANGED <<currentEndpoint, gasPrice, gasLimit, caught>>
       ELSE IF o.ok
       THEN Catch("Transaction failed on-chain", << <<"mined", currentEndpoint>> >>)
       ELSE Catch(IF o.message = "timeout" THEN "Transaction timeout" ELSE o.message, <<>>)
    /\ SubmitFrame

SInit ==
  /\ Loaded
  /\ SubmitIdle
  /\ wallet \in BOOLEAN

SNext ==
  \/ SendTransactionWithRetry
  \/ ProbeDone
  \/ NonceDone
  \/ FeeDone
  \/ BalanceDone
  \/ EstimateDone
  \/ SendDone
  \/ WaitDone

SpecSubmit == SInit /\ [][SNext]_vars

(***************************************************************************)
(* useLeaderboard: updateWithLocalScores and fetchLeaderboard.             *)
(***************************************************************************)
\* what the contract can hold behind getLeaderboardGameIds / getGameInfo
Game(gameId, player, finalScore, ended) ==
  [gameId |-> gameId, player |-> player, finalScore |-> finalScore, ended |-> ended]

ShortBoard == <<Game(1, "0xA", 3, TRUE), Game(2, "0xB", 0, TRUE), Game(3, "0xC", 5, FALSE)>>

LongBoard == [k \in 1..12 |-> Game(k, "0xA", IF k = 7 THEN 0 ELSE (k % 4) + 1, TRUE)]

ChainBoards == {<<>>, ShortBoard, LongBoard}

\* an address that JSON.parse does not give back as a string; a score that is undefined
NotAString == "{}"

NoScore == -1

\* what the two keys updateWithLocalScores reads can hold
FuseQueues ==
  {StorageNull, StorageCorrupt,
   stringify(<<EndRecord(1, 2, "confirmed", TxHash), EndRecord(1, 4, "confirmed", TxHash),
               EndRecord(2, 6, "pending", TxHash), StartRecord(1, "confirmed", TxHash, 1)>>)}

FuseScore(gameId, address, score, timestamp) ==
  [gameId |-> gameId, address |-> address, score |-> score, timestamp |-> timestamp]

FuseScores ==
  {StorageNull,
   stringify(<<FuseScore(1, "unknown", 4, 0), FuseScore(2, NotAString, 7, 1),
               FuseScore(3, "0xC", NoScore, 1)>>)}

\* what the queue manager and end-game leave stored: nothing yet, a game ended
\* on the chain, a game whose end was only recorded locally
StartedRecords ==
  <<StartRecord(1, "pending", Undefined, 0), StartRecord(1, "pending", TxHash, 0),
    StartRecord(1, "confirmed", TxHash, 1)>>

PlayedStores ==
  {<<stringify(<<>>), <<>>>>,
   <<stringify(StartedRecords \o <<EndRecord(1, 1, "pending", Undefined),
                                    EndRecord(1, 1, "pending", TxHash),
                                    EndRecord(1, 1, "confirmed", TxHash)>>),
     saveScoreLocally(<<>>, 1, 1, TRUE)>>,
   <<stringify(StartedRecords \o <<LocalOnlyRecord(1, 1)>>),
     saveScoreLocally(<<>>, 1, 1, TRUE)>>}

\* typeof address === 'string' ? address : 'local_player'
validAddress(address) == IF address = NotAString THEN "local_player" ELSE address

\* Math.floor(ms / 1000)
floorSeconds(ms) == ms \div 1000

\* Array.prototype.sort((a, b) => b.score - a.score): stable, highest first
RECURSIVE insertByScore(_, _)
insertByScore(sorted, entry) ==
  IF sorted = <<>> THEN <<entry>>
  ELSE IF Head(sorted).score >= entry.score
       THEN <<Head(sorted)>> \o insertByScore(Tail(sorted), entry)
       ELSE <<entry>> \o sorted

RECURSIVE sortByScore(_)
sortByScore(list) ==
  IF list = <<>> THEN <<>>
  ELSE insertByScore(sortByScore(SubSeq(list, 1, Len(list) - 1)), list[Len(list)])

\* list.slice(0, n)
slice(list, n) == SubSeq(list, 1, IF Len(list) < n THEN Len(list) ELSE n)

\* useLeaderboard.ts:67-72
endGameTxs(transactions) ==
  SelectSeq(transactions,
    LAMBDA tx : /\ tx.type = "end"
                /\ tx.status = "confirmed"
                /\ tx.data.finalScore # NoScore
                /\ tx.data.gameId # 0)

\* variant: the first record of a gameId is kept, whatever its score
bestOfFirst(txs, gameId) ==
  LET tx == SelectSeq(txs, LAMBDA t : t.data.gameId = gameId)[1]
  IN [address |-> IF tx.data.tag = "address" THEN "0xplayer" ELSE "local_player",
      score |-> tx.data.finalScore,
      timestamp |-> floorSeconds(tx.timestamp)]

\* the record localScores[gameId] ends with: the first one of the highest finalScore
bestOf(txs, gameId) ==
  LET mine == SelectSeq(txs, LAMBDA tx : tx.data.gameId = gameId)
      top == CHOOSE s \in {mine[k].data.finalScore : k \in 1..Len(mine)} :
               \A k \in 1..Len(mine) : mine[k].data.finalScore <= s
      tx == SelectSeq(mine, LAMBDA t : t.data.finalScore = top)[1]
  IN [address |-> IF tx.data.tag = "address" THEN "0xplayer" ELSE "local_player",
      score |-> tx.data.finalScore,
      timestamp |-> floorSeconds(tx.timestamp)]

\* Object.values(localScores): integer-like keys come in ascending order
RECURSIVE valuesOf(_, _)
valuesOf(txs, gameIds) ==
  IF gameIds = {} THEN <<>>
  ELSE LET g == CHOOSE x \in gameIds : \A y \in gameIds : x <= y
       IN <<bestOf(txs, g)>> \o valuesOf(txs, gameIds \ {g})

\* useLeaderboard.ts:61-100
queueContribution(txQueue) ==
  IF ~parseOk(txQueue) THEN <<>>
  ELSE LET txs == endGameTxs(parse(txQueue))
       IN valuesOf(txs, {txs[k].data.gameId : k \in 1..Len(txs)})

\* useLeaderboard.ts:103-121
scoresContribution(localScoresJson, dateNow) ==
  IF ~parseOk(localScoresJson) THEN <<>>
  ELSE LET kept == SelectSeq(parse(localScoresJson), LAMBDA score : score.score # NoScore)
       IN [k \in 1..Len(kept) |->
            [address |-> validAddress(kept[k].address),
             score |-> kept[k].score,
             timestamp |-> IF kept[k].timestamp # 0 THEN kept[k].timestamp
                           ELSE floorSeconds(dateNow)]]

\* variant: the merged list is sorted but not cut
updateWithLocalScoresUncut(currentEntries, txQueue, localScoresJson, dateNow) ==
  sortByScore(currentEntries \o queueContribution(txQueue)
                \o scoresContribution(localScoresJson, dateNow))

\* useLeaderboard.ts:56-139
updateWithLocalScores(currentEntries, txQueue, localScoresJson, dateNow) ==
  slice(sortByScore(currentEntries \o queueContribution(txQueue)
                      \o scoresContribution(localScoresJson, dateNow)), TopN)

\* useLeaderboard.ts:187-206: the entries built from the contract's games
leaderboardData(games, dateNow) ==
  LET all == [k \in 1..Len(games) |->
                [address |-> games[k].player, score |-> games[k].finalScore,
                 timestamp |-> dateNow, gameId |-> games[k].gameId]]
  IN slice(sortByScore(SelectSeq(all, LAMBDA game : game.score > 0)), TopN)

\* getFromLocalStorage(LEADERBOARD_CACHE_KEY)
isExpired(item, dateNow) == dateNow - item.timestamp > CacheMaxAge

getFromLocalStorage(item, dateNow) ==
  IF item.kind = "null" \/ isExpired(item, dateNow) THEN NoCachedData
  ELSE [found |-> TRUE, data |-> item.data]

\* saveToLocalStorage(LEADERBOARD_CACHE_KEY, data)
saveToLocalStorage(data, dateNow) == [kind |-> "json", data |-> data, timestamp |-> dateNow]

BoardFrame ==
  /\ UNCHANGED <<queue, isPending, dirty, storage, timers>>
  /\ UNCHANGED hvars
  /\ UNCHANGED jvars
  /\ UNCHANGED gvars
  /\ UNCHANGED wvars
  /\ UNCHANGED svars
  /\ UNCHANGED <<leaderboardGames, fuseQueue, fuseScores>>

merged(currentEntries) == updateWithLocalScores(currentEntries, fuseQueue, fuseScores, now)

\* the end of a run: finally { setLoading(false) }
Finished(exposedEntries, success) ==
  /\ loading' = FALSE
  /\ pcFetch' = "idle"
  /\ runs' = Append(runs, [cached |-> cachedData.found, success |-> success,
                           at |-> now, entries |-> exposedEntries,
                           error |-> leaderboardError'])

\* useLeaderboard.ts:230-247
AllFailed ==
  /\ IF ~cachedData.found
     THEN IF Len(merged(<<>>)) > 0
          THEN /\ entries' = merged(<<>>)
               /\ leaderboardError' = "Using local game data"
          ELSE /\ entries' = <<>>
               /\ leaderboardError' = "No leaderboard data available"
     ELSE UNCHANGED <<entries, leaderboardError>>
  /\ Finished(entries', FALSE)
  /\ UNCHANGED <<leaderboardCache, isRealData, endpointIndex, cachedData>>

\* the for loop moves on: the next endpoint, or none is left
NextEndpointOrFail ==
  IF endpointIndex + 1 < Len(RPC_ENDPOINTS)
  THEN /\ endpointIndex' = endpointIndex + 1
       /\ pcFetch' = "probe"
       /\ UNCHANGED <<leaderboardCache, entries, loading, leaderboardError,
                      isRealData, cachedData, runs>>
  ELSE AllFailed

\* fetchLeaderboard, called on mount and by the 30 s interval, up to its first await
FetchLeaderboard ==
  /\ pcFetch = "idle"
  /\ Len(runs) < MaxRuns
  /\ LET found == getFromLocalStorage(leaderboardCache, now)
     IN /\ cachedData' = found
        /\ leaderboardCache' = IF leaderboardCache.kind # "null" /\ isExpired(leaderboardCache, now)
                               THEN NoCache ELSE leaderboardCache
        /\ IF found.found
           THEN /\ entries' = merged(found.data)
                /\ loading' = FALSE
           ELSE UNCHANGED <<entries, loading>>
  /\ endpointIndex' = 0
  /\ pcFetch' = "probe"
  /\ UNCHANGED <<leaderboardError, isRealData, runs>>
  /\ UNCHANGED now
  /\ BoardFrame

\* await provider.getBlockNumber()
BoardProbeDone ==
  /\ pcFetch = "probe"
  /\ \E ok \in BOOLEAN :
       IF ok
       THEN /\ pcFetch' = "read"
            /\ UNCHANGED <<leaderboardCache, entries, loading, leaderboardError,
                           isRealData, endpointIndex, cachedData, runs>>
       ELSE NextEndpointOrFail
  /\ UNCHANGED now
  /\ BoardFrame

\* await contract.getLeaderboardGameIds(); await Promise.all(gamePromises)
BoardReadDone ==
  /\ pcFetch = "read"
  /\ \E ok \in BOOLEAN :
       IF ok
       THEN LET data == leaderboardData(leaderboardGames, now)
            IN /\ leaderboardCache' = saveToLocalStorage(data, now)
               /\ entries' = merged(data)
               /\ isRealData' = TRUE
               /\ UNCHANGED <<leaderboardError, endpointIndex, cachedData>>
               /\ Finished(entries', TRUE)
       ELSE NextEndpointOrFail
  /\ UNCHANGED now
  /\ BoardFrame

\* time passes
BoardTick ==
  /\ now < MaxBoardTime
  /\ now' = now + 1
  /\ UNCHANGED bvars /\ UNCHANGED jvars
  /\ UNCHANGED <<queue, isPending, dirty, storage, timers>>
  /\ UNCHANGED hvars
  /\ UNCHANGED gvars
  /\ UNCHANGED wvars
  /\ UNCHANGED svars

BInit ==
  /\ QueueIdle
  /\ PageIdle
  /\ SubmitIdle
  /\ wallet = FALSE
  /\ BoardIdle
  /\ \E played \in PlayedStores :
       /\ storage = played[1]
       /\ localScores = played[2]
  /\ leaderboardGames \in ChainBoards
  /\ leaderboardCache = NoCache
  /\ fuseQueue \in FuseQueues
  /\ fuseScores \in FuseScores

BNext ==
  \/ FetchLeaderboard
  \/ BoardProbeDone
  \/ BoardReadDone
  \/ BoardTick

SpecBoard == BInit /\ [][BNext]_vars

(***************************************************************************)
(* Queue harness: one hook instance driven by every sequence of calls.     *)
(***************************************************************************)
H == "game"

HarnessIds == {<<"start", 1>>, <<"end", 1>>}


HarnessUpdates ==
  {[status |-> s] : s \in Status}
    \cup {[hash |-> "0xh", status |-> "pending"],
          [data |-> SomeData]}

Called(op, n) == last' = [op |-> op, dropped |-> n, found |-> FALSE, guarded |-> FALSE]

\* the history flags of the records a prune keeps
RECURSIVE keptFlags(_, _, _)
keptFlags(q, w, oneHourAgo) ==
  IF q = <<>> THEN <<>>
  ELSE IF Head(q).status = "pending" \/ Head(q).timestamp > oneHourAgo
       THEN <<Head(w)>> \o keptFlags(Tail(q), Tail(w), oneHourAgo)
       ELSE keptFlags(Tail(q), Tail(w), oneHourAgo)

QInit ==
  /\ Loaded
  /\ SubmitIdle
  /\ wallet = FALSE

\* harness calls arrive in separate tasks: the effect of the previous call has
\* run and its 100 ms timeout has fired (the interval callbacks come any time)
Settled == timers = {} /\ \A i \in Inst : ~dirty[i]

QEnqueue ==
  \E id \in HarnessIds, s \in Status :
    /\ Settled
    /\ Len(queue[H]) < MaxQueue
    /\ AddToQueue(H, QueuedTransaction(id, id[1], s, now, Undefined, NoData, Undefined))
    /\ wasConfirmed' = Append(wasConfirmed, s = "confirmed")
    /\ Called("addToQueue", 0)

QUpdate ==
  \E id \in HarnessIds, u \in HarnessUpdates :
    LET index == findIndex(queue[H], id) IN
    /\ Settled
    /\ UpdateTransaction(H, id, u)
    /\ wasConfirmed' =
         IF index = 0 THEN wasConfirmed
         ELSE [wasConfirmed EXCEPT ![index] = @ \/ queue'[H][index].status = "confirmed"]
    /\ last' = [op |-> "updateTransaction", dropped |-> 0, found |-> index # 0,
                guarded |-> /\ index # 0
                            /\ queue[H][index].status = "confirmed"
                            /\ DOMAIN u = {"status", "hash"}
                            /\ u.status = "pending"]

QPrune ==
  /\ Settled
  /\ ClearOldTransactions(H)
  /\ wasConfirmed' = keptFlags(queue[H], wasConfirmed, now - OneHour)
  /\ Called("clearOldTransactions", Len(queue[H]) - Len(queue'[H]))

QClear ==
  /\ Settled
  /\ ClearQueue(H)
  /\ wasConfirmed' = <<>>
  /\ Called("clearQueue", Len(queue[H]))

QReconcile ==
  /\ CheckAndFixPendingState(H)
  /\ Called("checkAndFixPendingState", 0)
  /\ UNCHANGED wasConfirmed

QForceSave ==
  /\ ForceSave(H)
  /\ UNCHANGED hvars

QSaveEffect ==
  /\ SaveEffect(H)
  /\ UNCHANGED hvars

QForcedSaveTimeout ==
  /\ ForcedSaveTimeout
  /\ UNCHANGED hvars

\* a new page knows only what the loaded records say
QReload ==
  /\ Settled
  /\ Mount(<<H>>)
  /\ wasConfirmed' = [k \in 1..Len(queue'[H]) |-> queue'[H][k].status = "confirmed"]
  /\ last' = [op |-> "mount", dropped |-> Len(queue[H]), found |-> parseOk(storage),
              guarded |-> FALSE]

\* the stored value is removed or overwritten with text that is no JSON, from
\* outside the hook (site data cleared, another script on the page)
QStoreLost ==
  /\ Settled
  /\ \E lost \in {StorageNull, StorageCorrupt} : storage' = lost
  /\ UNCHANGED <<queue, isPending, dirty, timers, now>>
  /\ UNCHANGED hvars

\* a clock tick is an hour: effects and 100 ms timeouts have run by then
Tick ==
  /\ now < MaxTime
  /\ Settled
  /\ now' = now + 1
  /\ UNCHANGED <<queue, isPending, dirty, storage, timers>>
  /\ UNCHANGED hvars

QNext ==
  \/ QEnqueue /\ UNCHANGED gvars /\ UNCHANGED wvars /\ UNCHANGED svars /\ UNCHANGED bvars /\ UNCHANGED jvars
  \/ QUpdate /\ UNCHANGED gvars /\ UNCHANGED wvars /\ UNCHANGED svars /\ UNCHANGED bvars /\ UNCHANGED jvars
  \/ QPrune /\ UNCHANGED gvars /\ UNCHANGED wvars /\ UNCHANGED svars /\ UNCHANGED bvars /\ UNCHANGED jvars
  \/ QClear /\ UNCHANGED gvars /\ UNCHANGED wvars /\ UNCHANGED svars /\ UNCHANGED bvars /\ UNCHANGED jvars
  \/ QReconcile /\ UNCHANGED gvars /\ UNCHANGED wvars /\ UNCHANGED svars /\ UNCHANGED bvars /\ UNCHANGED jvars
  \/ QForceSave /\ UNCHANGED gvars /\ UNCHANGED wvars /\ UNCHANGED svars /\ UNCHANGED bvars /\ UNCHANGED jvars
  \/ QSaveEffect /\ UNCHANGED gvars /\ UNCHANGED wvars /\ UNCHANGED svars /\ UNCHANGED bvars /\ UNCHANGED jvars
  \/ QForcedSaveTimeout /\ UNCHANGED gvars /\ UNCHANGED wvars /\ UNCHANGED svars /\ UNCHANGED bvars /\ UNCHANGED jvars
  \/ QReload /\ UNCHANGED gvars /\ UNCHANGED wvars /\ UNCHANGED svars /\ UNCHANGED bvars /\ UNCHANGED jvars
  \/ QStoreLost /\ UNCHANGED gvars /\ UNCHANGED wvars /\ UNCHANGED svars /\ UNCHANGED bvars /\ UNCHANGED jvars
  \/ Tick /\ UNCHANGED gvars /\ UNCHANGED wvars /\ UNCHANGED svars /\ UNCHANGED bvars /\ UNCHANGED jvars

SpecQueue == QInit /\ [][QNext]_vars

(***************************************************************************)
(* The page as a whole                                                     *)
(***************************************************************************)
Init == QInit

Next ==
  \/ ConnectWallet /\ UNCHANGED wvars /\ UNCHANGED svars /\ UNCHANGED bvars /\ UNCHANGED jvars
  \/ ResetGameStateAndReconnect /\ UNCHANGED wvars /\ UNCHANGED svars /\ UNCHANGED bvars /\ UNCHANGED jvars
  \/ ReconnectDone /\ UNCHANGED wvars /\ UNCHANGED svars /\ UNCHANGED bvars /\ UNCHANGED jvars
  \/ HandleStartGame /\ UNCHANGED wvars /\ UNCHANGED svars /\ UNCHANGED bvars /\ UNCHANGED jvars
  \/ StartSwitchDone /\ UNCHANGED wvars /\ UNCHANGED svars /\ UNCHANGED bvars /\ UNCHANGED jvars
  \/ StartSubmitDone /\ UNCHANGED wvars /\ UNCHANGED svars /\ UNCHANGED bvars /\ UNCHANGED jvars
  \/ StartWaitDone /\ UNCHANGED wvars /\ UNCHANGED svars /\ UNCHANGED bvars /\ UNCHANGED jvars
  \/ StartCountdownDone /\ UNCHANGED wvars /\ UNCHANGED svars /\ UNCHANGED bvars /\ UNCHANGED jvars
  \/ Frame /\ UNCHANGED wvars /\ UNCHANGED svars /\ UNCHANGED bvars /\ UNCHANGED jvars
  \/ HandleEndGame /\ UNCHANGED wvars /\ UNCHANGED svars /\ UNCHANGED bvars /\ UNCHANGED jvars
  \/ EndSwitchDone /\ UNCHANGED wvars /\ UNCHANGED svars /\ UNCHANGED bvars /\ UNCHANGED jvars
  \/ EndVerifyDone /\ UNCHANGED wvars /\ UNCHANGED svars /\ UNCHANGED bvars /\ UNCHANGED jvars
  \/ EndSubmitDone /\ UNCHANGED wvars /\ UNCHANGED svars /\ UNCHANGED bvars /\ UNCHANGED jvars
  \/ EndWaitDone /\ UNCHANGED wvars /\ UNCHANGED svars /\ UNCHANGED bvars /\ UNCHANGED jvars
  \/ resetGame /\ UNCHANGED wvars /\ UNCHANGED svars /\ UNCHANGED bvars /\ UNCHANGED jvars
  \/ InitializeWallet /\ UNCHANGED svars /\ UNCHANGED bvars /\ UNCHANGED jvars
  \/ WalletCreateDone /\ UNCHANGED svars /\ UNCHANGED bvars /\ UNCHANGED jvars
  \/ WalletBalanceDone /\ UNCHANGED svars /\ UNCHANGED bvars /\ UNCHANGED jvars
  \/ FundBalanceDone /\ UNCHANGED svars /\ UNCHANGED bvars /\ UNCHANGED jvars
  \/ FundSendDone /\ UNCHANGED svars /\ UNCHANGED bvars /\ UNCHANGED jvars
  \/ FundWaitDone /\ UNCHANGED svars /\ UNCHANGED bvars /\ UNCHANGED jvars
  \/ PageSaveEffect /\ UNCHANGED svars /\ UNCHANGED bvars /\ UNCHANGED jvars
  \/ PageForcedSaveTimeout /\ UNCHANGED svars /\ UNCHANGED bvars /\ UNCHANGED jvars
  \/ Reload /\ UNCHANGED svars /\ UNCHANGED bvars /\ UNCHANGED jvars

Spec == Init /\ [][Next]_vars

(***************************************************************************)
(* A session being played: handleJump (Game.tsx:554-597) with              *)
(* addJumpToBatch (useCustodialWallet.ts:352-394), and gameLoop            *)
(* (Game.tsx:120-236) with the closure it runs in.                         *)
(***************************************************************************)
MaxJumps == 61   \* jumps of one session

BatchSize == 10       \* newJumps.length >= 10, slice(0, 10), slice(10)
ProcessedKept == 50   \* updatedJumps.slice(-50)

\* list.slice(-n)
sliceLast(list, n) ==
  IF Len(list) <= n THEN list ELSE SubSeq(list, Len(list) - n + 1, Len(list))

\* jumpData of handleJump; n is history, the number of the jump in the session
JumpData(n) ==
  [timestamp |-> now, scoreAtJump |-> gameState.score, multiplierAtJump |-> 1, n |-> n]

\* the record of addJumpToBatch, useCustodialWallet.ts:376-387, with
\* Math.floor((totalJumps + 1) / 10) + 1 and Math.ceil((totalJumps + 2) / 10)
BatchRecord(batch) ==
  QueuedTransaction(<<"batch", now>>, "jump", "confirmed", now, Undefined,
    [tag |-> "batch", gameId |-> 0, finalScore |-> NoScore, localOnly |-> FALSE,
     jumps |-> Len(batch), batchNumber |-> ((totalJumps + 1) \div BatchSize) + 1,
     totalBatches |-> (totalJumps + 2 + BatchSize - 1) \div BatchSize],
    Undefined)

\* the record of handleJump, Game.tsx:585-594
JumpRecord ==
  QueuedTransaction(<<"jump", now>>, "jump", "confirmed", now, Undefined,
    [tag |-> "jump", gameId |-> 0, finalScore |-> NoScore, localOnly |-> FALSE,
     jumps |-> 1, score |-> gameState.score],
    Undefined)

\* variant: the batch is cut off at a size that is not the one it is flushed at
addJumpToBatchShortFlush(jumpData) ==
  LET jump == [jumpData EXCEPT !.scoreAtJump = IF @ = 0 THEN 1 ELSE @]
      newJumps == Append(pendingJumps, jump)
  IN /\ totalJumps' = totalJumps + 1
     /\ IF Len(newJumps) >= BatchSize - 1
        THEN /\ jumpTasks' = Append(jumpTasks, newJumps)
             /\ pendingJumps' = <<>>
        ELSE /\ pendingJumps' = newJumps
             /\ UNCHANGED jumpTasks

\* addJumpToBatch without its addToQueue: scoreAtJump || 1 turns a score of 0
\* into 1; a full batch leaves in a microtask
addJumpToBatch(jumpData) ==
  LET jump == [jumpData EXCEPT !.scoreAtJump = IF @ = 0 THEN 1 ELSE @]
      newJumps == Append(pendingJumps, jump)
  IN /\ totalJumps' = totalJumps + 1
     /\ IF Len(newJumps) >= BatchSize
        THEN /\ jumpTasks' = Append(jumpTasks, SubSeq(newJumps, 1, BatchSize))
             /\ pendingJumps' = SubSeq(newJumps, BatchSize + 1, Len(newJumps))
        ELSE /\ pendingJumps' = newJumps
             /\ UNCHANGED jumpTasks

\* a key press, click or touch: the whole of handleJump, which returns at
\* once when gameState.isPlaying is false. The gameLoop effect
\* runs again only when velocity or hasStartedMoving changed
\* (deps: isPlaying, velocity, pipePositions, hasStartedMoving)
HandleJump ==
  LET jumpData == JumpData(gameState.totalJumps + 1)
      flushed == Len(pendingJumps) + 1 >= BatchSize
      batch == SubSeq(Append(pendingJumps, jumpData), 1, BatchSize)
  IN /\ EffectsDone
     /\ gameState.isPlaying
     /\ gameState.totalJumps < MaxJumps
     /\ hasStartedMoving' = TRUE
     /\ velocity' = "JUMP_STRENGTH"
     /\ addJumpToBatch(jumpData)
     /\ gameState' = [gameState EXCEPT
                        !.totalJumps = @ + 1,
                        !.jumps = Append(@, jumpData)]
     /\ setQueues(IF flushed
                  THEN ("game" :> addToQueue(queue["game"], JumpRecord))
                       @@ ("cwallet" :> addToQueue(queue["cwallet"], BatchRecord(batch)))
                  ELSE "game" :> addToQueue(queue["game"], JumpRecord))
     /\ loopState' = IF velocity # "JUMP_STRENGTH" \/ ~hasStartedMoving
                     THEN gameState' ELSE loopState
     /\ UNCHANGED processedJumps
     /\ UNCHANGED <<isPending, storage, timers, now>>
     /\ UNCHANGED <<connected, pcReset, isLoading, error, pcStart, attempt, startResult,
                    pcEnd, endResult, localScores, nextGameId>>
     /\ UNCHANGED hvars

\* the microtask of addJumpToBatch:
\* setProcessedJumps(prev => [...prev, ...batchToProcess].slice(-50))
JumpBatchTask ==
  /\ jumpTasks # <<>>
  /\ processedJumps' = sliceLast(processedJumps \o Head(jumpTasks), ProcessedKept)
  /\ jumpTasks' = Tail(jumpTasks)
  /\ UNCHANGED <<pendingJumps, totalJumps, velocity, hasStartedMoving, loopState>>
  /\ UNCHANGED qvars
  /\ UNCHANGED hvars
  /\ UNCHANGED gvars

\* variant: a frame that takes a point away
ScoreIncrementsOrPenalty == {-1, 0, 1}

\* scoreIncrement of one frame
ScoreIncrements == {0, 1}

\* gameLoop without a collision: setVelocity(prev => prev + GRAVITY), the pipes
\* move, score: prev.score + scoreIncrement; the effect runs again and the
\* next frame sees the new gameState
PlayFrame ==
  /\ EffectsDone
  /\ gameState.isPlaying
  /\ hasStartedMoving
  /\ \E scoreIncrement \in ScoreIncrements :
       /\ gameState.score + scoreIncrement \in 0..MaxScore
       /\ gameState' = [gameState EXCEPT !.score = @ + scoreIncrement,
                                          !.pipePositions = "pipes"]
  /\ velocity' = "falling"
  /\ loopState' = gameState'
  /\ UNCHANGED <<pendingJumps, processedJumps, totalJumps, jumpTasks, hasStartedMoving>>
  /\ UNCHANGED <<connected, pcReset, isLoading, error, pcStart, attempt, startResult,
                 pcEnd, endResult, localScores, nextGameId>>
  /\ UNCHANGED qvars
  /\ UNCHANGED hvars

\* gameLoop finds the bird in a pipe or out of bounds, which it looks for once
\* per pipe: handleEndGame() of the render the loop was scheduled in
Collision ==
  /\ hasStartedMoving
  /\ loopState.pipePositions # "[]"
  /\ HandleEndGameFrom(loopState)
  /\ velocity' = "falling"
  /\ loopState' = gameState'
  /\ UNCHANGED <<pendingJumps, processedJumps, totalJumps, jumpTasks, hasStartedMoving>>

\* Play Again: resetGame with its setVelocity(0) and setHasStartedMoving(false)
PlayAgain ==
  /\ resetGame
  /\ velocity' = "0"
  /\ hasStartedMoving' = FALSE
  /\ loopState' = gameState'
  /\ UNCHANGED <<pendingJumps, processedJumps, totalJumps, jumpTasks>>

\* the page when the countdown of the first started game is over
PInit ==
  /\ now = 0
  /\ queue = [i \in Inst |->
                IF i = "game"
                THEN <<UiStartRecord(1, "pending", 0, Undefined),
                       UiStartRecord(1, "confirmed", 1, Undefined)>>
                ELSE IF i = "contract"
                THEN <<StartRecord(1, "pending", Undefined, 0),
                       StartRecord(1, "pending", TxHash, 0),
                       StartRecord(1, "confirmed", TxHash, 1)>>
                ELSE <<>>]
  /\ isPending = [i \in Inst |-> i \in {"game", "contract"}]
  /\ dirty = [i \in Inst |-> FALSE]
  /\ storage = stringify(queue["game"])
  /\ timers = {}
  /\ wasConfirmed = <<>>
  /\ last = [op |-> "mount", dropped |-> 0, found |-> FALSE, guarded |-> FALSE]
  /\ connected = TRUE
  /\ pcReset = "idle"
  /\ gameState = [INITIAL_STATE EXCEPT !.isPlaying = TRUE, !.gameId = 1]
  /\ isLoading = FALSE
  /\ error = "none"
  /\ pcStart = "idle"
  /\ attempt = 1
  /\ startResult = [status |-> "ok", cause |-> "none", id |-> 1, gameId |-> 1]
  /\ pcEnd = "idle"
  /\ endResult = NoEnd
  /\ localScores = <<>>
  /\ nextGameId = 2
  /\ pcWallet = "idle"
  /\ walletReady = FALSE
  /\ walletLoading = FALSE
  /\ nInit = 0
  /\ canProcess = TRUE
  /\ SubmitIdle
  /\ wallet = FALSE
  /\ BoardIdle
  /\ leaderboardGames = <<>>
  /\ leaderboardCache = NoCache
  /\ fuseQueue = StorageNull
  /\ fuseScores = StorageNull
  /\ pendingJumps = <<>>
  /\ processedJumps = <<>>
  /\ totalJumps = 0
  /\ jumpTasks = <<>>
  /\ velocity = "0"
  /\ hasStartedMoving = FALSE
  /\ loopState = gameState

PlayRest == UNCHANGED wvars /\ UNCHANGED svars /\ UNCHANGED bvars

MaxPlayJumps == 10  \* jumps of a session that is played to its end

NoMicrotask == jumpTasks = <<>>

\* a microtask runs before anything else does
PNext ==
  \/ JumpBatchTask /\ PlayRest
  \/ NoMicrotask /\ gameState.totalJumps < MaxPlayJumps /\ HandleJump /\ PlayRest
  \/ NoMicrotask /\ PlayFrame /\ PlayRest
  \/ NoMicrotask /\ Collision /\ PlayRest
  \/ NoMicrotask /\ EndSwitchDone /\ PlayRest /\ UNCHANGED jvars
  \/ NoMicrotask /\ EndVerifyDone /\ PlayRest /\ UNCHANGED jvars
  \/ NoMicrotask /\ EndSubmitDone /\ PlayRest /\ UNCHANGED jvars
  \/ NoMicrotask /\ EndWaitDone /\ PlayRest /\ UNCHANGED jvars
  \/ NoMicrotask /\ PlayAgain /\ PlayRest
  \/ NoMicrotask /\ PageSaveEffect /\ UNCHANGED svars /\ UNCHANGED bvars /\ UNCHANGED jvars

SpecPlay == PInit /\ [][PNext]_vars

\* the jumps of one long session, without its end
JNext ==
  \/ JumpBatchTask /\ PlayRest
  \/ NoMicrotask /\ HandleJump /\ PlayRest
  \/ NoMicrotask /\ PlayFrame /\ PlayRest
  \/ NoMicrotask /\ PageSaveEffect /\ UNCHANGED svars /\ UNCHANGED bvars /\ UNCHANGED jvars

SpecJumps == PInit /\ [][JNext]_vars

(***************************************************************************)
(* Properties of the Transaction Queue Manager (SpecQueue).                *)
(***************************************************************************)

\* C1: over every sequence of enqueue and update calls, a record that has had
\* status 'confirmed' does not have status 'pending' after any later update.
C1_ConfirmedNeverPendingAgain ==
  \A k \in 1..Len(queue[H]) : wasConfirmed[k] => queue[H][k].status # "pending"

PruneKeepsAndDrops ==
  LET oneHourAgo == now - OneHour
      Pend(tx) == tx.status = "pending"
      Newer(tx) == tx.status # "pending" /\ tx.timestamp > oneHourAgo
      OldDone(tx) == tx.status \in {"confirmed", "failed"} /\ tx.timestamp < oneHourAgo
  IN /\ SelectSeq(queue'[H], Pend) = SelectSeq(queue[H], Pend)
     /\ SelectSeq(queue'[H], OldDone) = <<>>
     /\ SelectSeq(queue'[H], Newer) = SelectSeq(queue[H], Newer)

C3_PruneSparesPendingDropsOld == [][QPrune => PruneKeepsAndDrops]_vars

\* a prune has dropped a record and an old pending record is still there
C3_Witness ==
  /\ last.op = "clearOldTransactions"
  /\ last.dropped > 0
  /\ \E k \in 1..Len(queue[H]) :
       queue[H][k].status = "pending" /\ queue[H][k].timestamp < now - OneHour

\* the records of list q whose id is id
withId(q, id) == SelectSeq(q, LAMBDA tx : tx.id = id)

pendingCount(q) == Len(SelectSeq(q, LAMBDA tx : tx.status = "pending"))

savedLocally(gameId, finalScore) ==
  \E k \in 1..Len(localScores) :
    localScores[k].gameId = gameId /\ localScores[k].score = finalScore

\* C4: at no reachable state does a queue hold more than one record with
\* status Pending, because every operation that enqueues a Pending record
\* (wallet initialisation, funding, start-game, end-game) does so only when
\* canSubmit holds.
C4_AtMostOnePending == \A i \in Inst : pendingCount(queue[i]) <= 1

\* C5: when the end-game chain submission fails (at submission or while
\* waiting for inclusion), then once endGame has returned the local-scores
\* store holds an entry with that gameId and finalScore, the queue holds a
\* Confirmed end record of that gameId flagged localOnly, and the result
\* reports localOnly.
C5_ChainFailureIsSettledLocally ==
  endResult.cause \in {"submit", "wait"} =>
    /\ endResult.status = "localOnly"
    /\ savedLocally(endResult.gameId, endResult.score)
    /\ \E k \in 1..Len(queue["contract"]) :
         LET tx == queue["contract"][k] IN
         /\ tx.type = "end"
         /\ tx.status = "confirmed"
         /\ tx.data.gameId = endResult.gameId
         /\ tx.data.localOnly

C5_Witness ==
  /\ endResult.cause = "wait"
  /\ endResult.status = "localOnly"
  /\ endResult.score = MaxScore
  /\ pcEnd = "idle"

\* C6: every end-game invocation that does not end in a confirmed chain
\* write has put the final score in the local-scores store by the time
\* control is back in the caller, whatever the failure, failures before any
\* submission (contract or signer not initialised, invalid arguments,
\* network switch) included.
C6_EveryFailedEndIsSavedLocally ==
  endResult.status \in {"localOnly", "threw"} =>
    savedLocally(endResult.gameId, endResult.score)

\* C7: when a start-game submission has succeeded, the queue holds a record
\* with that transaction id that is Confirmed with hash and gameId set, and
\* holds no record with that id that is Pending.
StartSucceeds == pcStart = "wait" /\ pcStart' = "countdown"

C7_StartSuccessLeavesNoPending ==
  [][StartSucceeds =>
       LET id == <<"start", startResult'.id>> IN
       /\ \E i \in Inst : \E k \in 1..Len(queue'[i]) :
            /\ queue'[i][k].id = id
            /\ queue'[i][k].status = "confirmed"
            /\ queue'[i][k].hash # Undefined
            /\ queue'[i][k].data.gameId = startResult'.gameId
       /\ \A i \in Inst : ~hasPending(withId(queue'[i], id))]_vars

\* C8: when the start-game call fails, the StartGame record enqueued Pending
\* for it ends Failed and no record of that attempt stays Pending, the
\* session is Idle (not playing, not loading) and a message is set.
StartFails ==
  pcStart \in {"switch", "submit", "wait"} /\ startResult'.status = "failed"
                                           /\ pcStart' = "idle"

C8_StartFailureLeavesNoPending ==
  [][StartFails =>
       LET id == <<"start", startResult'.id>> IN
       /\ \E k \in 1..Len(queue'["game"]) :
            queue'["game"][k].id = id /\ queue'["game"][k].status = "failed"
       /\ \A i \in Inst : ~hasPending(withId(queue'[i], id))
       /\ ~gameState'.isPlaying
       /\ ~isLoading'
       /\ error' # "none"]_vars

\* C9: when the end-game chain submission is confirmed, the end record
\* enqueued Pending for it becomes Confirmed with the transaction hash:
\* afterwards no record with that id is Pending and the result is not
\* flagged localOnly.
EndConfirmed == pcEnd = "wait" /\ endResult'.status = "chain" /\ pcEnd' = "idle"

C9_EndSuccessLeavesNoPending ==
  [][EndConfirmed =>
       LET id == <<"end", endResult'.gameId>> IN
       /\ \E k \in 1..Len(queue'["contract"]) :
            /\ queue'["contract"][k].id = id
            /\ queue'["contract"][k].status = "confirmed"
            /\ queue'["contract"][k].hash = TxHash
       /\ \A i \in Inst : ~hasPending(withId(queue'[i], id))]_vars

\* C10: sendTransactionWithRetry tries the endpoints one at a time in list
\* order: a probe failure or a nonce failure on endpoint i moves on to
\* endpoint i+1 with no transaction submitted on i, and such a failure on
\* the last endpoint makes the call fail.
LastEndpoint == Len(RPC_ENDPOINTS) - 1

flavour(message) ==
  CASE message = "network error" -> "connectivity"
    [] message \in {"timeout", "Transaction timeout"} -> "timeout"
    [] message = "nonce too low" -> "nonce"
    [] message = "user rejected" -> "rejected"
    [] message \in {"insufficient funds", FundsErrorAt0,
                    "Insufficient funds. Need at least balance STT for gas.",
                    "Not enough STT for gas. Please make sure your wallet has enough STT tokens."}
         -> "funds"
    [] message \in {"execution reverted", RevertErrorAt0, WouldFailAt0,
                    "Transaction would fail: execution reverted",
                    "Transaction failed on-chain"} -> "reverted"
    [] OTHER -> "unknown"

\* C11: after a failed attempt the call goes on to the next endpoint if and
\* only if the failure is connectivity- or timeout-flavoured and an endpoint
\* remains; any other failure (reverted execution, signer rejection,
\* insufficient funds) ends the call at once and no further endpoint is
\* contacted.
C11_RetryIffConnectivityOrTimeout ==
  \A k \in 1..Len(caught) :
    caught[k].retried <=>
      /\ flavour(caught[k].message) \in {"connectivity", "timeout"}
      /\ caught[k].endpoint < LastEndpoint

\* the messages the catch block can be handed
CaughtMessages ==
  ProviderErrors \cup {FundsErrorAt0, RevertErrorAt0, WouldFailAt0,
    "Wallet not initialized", "Transaction timeout", "Transaction failed on-chain",
    "Transaction would fail: execution reverted",
    "Insufficient funds. Need at least balance STT for gas.",
    "Not enough STT for gas. Please make sure your wallet has enough STT tokens."}

\* C12: when the balance is below gasPrice * 500000 the call fails at once,
\* with no later endpoint tried and nothing submitted on this one, and with
\* an insufficient-funds failure the caller can tell apart from the
\* failures of other kinds.
C12_BalanceFailureIsTellable ==
  \A k \in 1..Len(caught) :
    caught[k].stage = "balance" /\ flavour(caught[k].message) = "funds" =>
      /\ ~caught[k].retried
      /\ k = Len(caught)
      /\ sPc = "done"
      /\ \A j \in 1..Len(trace) : trace[j] # <<"sent", caught[k].endpoint>>
      /\ result.status = "error"
      /\ \A m \in CaughtMessages :
           flavour(m) # "funds" => errorMessage(m) # result.message

\* the endpoints a transaction of this call was sent to and is not known to
\* be mined
inFlight ==
  {i \in 0..LastEndpoint :
     /\ \E k \in 1..Len(trace) : trace[k] = <<"sent", i>>
     /\ \A k \in 1..Len(trace) : trace[k] # <<"mined", i>>}

\* C13: within one call at most one submitted transaction is in flight at
\* any time, a transaction whose inclusion wait timed out still counting as
\* in flight.
C13_AtMostOneInFlight == Cardinality(inFlight) <= 1

\* C14: when the inclusion wait of a start-game or end-game submission
\* times out, the outcome is unknown: the timeout alone never gives a
\* record of that transaction the status Failed.
C14_TimeoutNeverMarksFailed ==
  /\ startResult.cause = "timeout" =>
       \A i \in Inst : \A k \in 1..Len(queue[i]) :
         queue[i][k].id = <<"start", startResult.id>> => queue[i][k].status # "failed"
  /\ endResult.cause = "wait" =>
       \A i \in Inst : \A k \in 1..Len(queue[i]) :
         queue[i][k].id = <<"end", endResult.gameId>> => queue[i][k].status # "failed"

\* an exposed entry that did not come from the contract
localOrigin(entry) == "gameId" \notin DOMAIN entry

\* the Confirmed EndGame records the queue manager persisted
persistedEnds ==
  IF parseOk(storage)
  THEN SelectSeq(parse(storage), LAMBDA tx : tx.type = "end" /\ tx.status = "confirmed")
  ELSE <<>>

contributes(score, exposedEntries) ==
  \E k \in 1..Len(exposedEntries) :
    localOrigin(exposedEntries[k]) /\ exposedEntries[k].score = score

\* C15: scores this program recorded locally are merged into the leaderboard:
\* after a successful refresh whose list is not full, every Confirmed EndGame
\* record in the queue manager's store and every entry of the local-scores
\* store has an entry of its score in the exposed list.
C15_LocalScoresAreMerged ==
  \A r \in 1..Len(runs) :
    runs[r].success /\ Len(runs[r].entries) < TopN =>
      /\ \A k \in 1..Len(persistedEnds) :
           contributes(persistedEnds[k].data.finalScore, runs[r].entries)
      /\ \A k \in 1..Len(localScores) :
           contributes(localScores[k].score, runs[r].entries)

\* highest score first
ordered(list) == \A k \in 1..(Len(list) - 1) : list[k].score >= list[k+1].score

\* C16: every entries list the aggregator exposes (from the cache, from a
\* successful refresh, from the local fallback) is ordered by score, highest
\* first, and has at most 10 elements.
C16_ExposedOrderedAtMostTen ==
  /\ ordered(entries)
  /\ Len(entries) <= TopN
  /\ \A r \in 1..Len(runs) : ordered(runs[r].entries) /\ Len(runs[r].entries) <= TopN

\* C16 happens: a refresh has exposed a full list that holds contract entries
\* and local entries, more than 10 having been merged.
C16_Witness ==
  /\ runs # <<>>
  /\ Len(entries) = TopN
  /\ \E k \in 1..TopN : localOrigin(entries[k])
  /\ \E k \in 1..TopN : ~localOrigin(entries[k])
  /\ Len(updateWithLocalScoresUncut(leaderboardData(leaderboardGames, now),
                                     fuseQueue, fuseScores, now)) > TopN

\* C17: two runs of fetchLeaderboard within the 5-minute cache window, the
\* chain data, the queue and the local-scores store being the same, expose
\* identical entry lists: the same entries in the same order with the same
\* field values.
C17_RunsWithinCacheWindowAgree ==
  \A r \in 1..(Len(runs) - 1) :
    runs[r+1].cached => runs[r+1].entries = runs[r].entries

\* C18: whenever every endpoint failed during a refresh, the exposed list is
\* the merge of the queue and local-scores contributions over an empty
\* on-chain base and the indicator 'Using local game data' is set.
C18_TotalFailureFallsBackToLocal ==
  \A r \in 1..Len(runs) :
    ~runs[r].success =>
      /\ runs[r].entries = updateWithLocalScores(<<>>, fuseQueue, fuseScores, runs[r].at)
      /\ runs[r].error = "Using local game data"

\* C19: checkAndFixPendingState leaves the cached isPending flag equal to
\* "some record of the current list is pending", whether the flag was stale
\* true or stale false before the call.
C19_ReconcileCorrectsEitherWay ==
  [][QReconcile => isPending'[H] = hasPending(queue[H])]_vars

\* C20: updateTransaction(id, updates) changes only the fields named in
\* updates, and only on the record matching id: every field not named, status
\* included, keeps its value and every other record stays as it was.
C20_UpdateChangesOnlyNamedFields ==
  [][\A id \in HarnessIds, u \in HarnessUpdates :
       UpdateTransaction(H, id, u) /\ last'.op = "updateTransaction" =>
         /\ Len(queue'[H]) = Len(queue[H])
         /\ \A k \in 1..Len(queue[H]), f \in Fields :
              k # findIndex(queue[H], id) \/ f \notin DOMAIN u =>
                queue'[H][k][f] = queue[H][k][f]]_vars

\* C21: updateTransaction with an id that matches no record leaves the list,
\* every record, the isPending flag and the stored value as they were, and
\* schedules neither a render nor a timeout.
C21_UpdateOfMissingIdIsNoOp ==
  [][\A id \in HarnessIds, u \in HarnessUpdates :
       /\ last'.op = "updateTransaction"
       /\ findIndex(queue[H], id) = 0
       /\ UpdateTransaction(H, id, u)
       => UNCHANGED <<queue, isPending, dirty, storage, timers>>]_vars

\* C21 happens: the last call was an update whose id was not in a list that
\* holds a pending record
C21_Witness ==
  /\ last.op = "updateTransaction"
  /\ ~last.found
  /\ queue[H] # <<>>
  /\ isPending[H]

\* some record of some hook instance's list is pending
anyPending == \E i \in Inst : hasPending(queue[i])

\* startGame / endGame is between its first and its last await
starting == pcStart \in {"switch", "submit", "wait"}

ending == pcEnd \in {"switch", "verify", "submit", "wait"}

\* C22: a start-game or an end-game submission begins only when no
\* transaction is pending, and a start-game and an end-game submission are
\* never in progress together.
C22_SubmissionBeginsWithNothingPending ==
  [][/\ (~starting /\ starting') \/ (~ending /\ ending') => ~anyPending
     /\ ~(starting' /\ ending')]_vars

\* C23: when the verification read of endGame is over, either the game was
\* reported ended or another player's, nothing is submitted and the call ends
\* with that condition as its message; or the game is open or the read failed
\* for another reason, and the call goes on to submit.
C23_OnlyEndedOrWrongPlayerStopsEndGame ==
  [][EndVerifyDone =>
       \/ /\ pcEnd' = "submit"
          /\ endResult'.verify \in {"open", "unreadable"}
       \/ /\ pcEnd' = "idle"
          /\ endResult'.status = "localOnly"
          /\ endResult'.cause \in {AlreadyEnded, OnlyOwnGames}
          /\ \A k \in 1..Len(queue'["contract"]) :
               queue'["contract"][k].type = "end" => queue'["contract"][k].hash = Undefined]_vars

\* C23 happens: a call was stopped because the game had already ended
C23_Witness ==
  /\ pcEnd = "idle"
  /\ endResult.cause = AlreadyEnded
  /\ endResult.gameId = 1

\* C24: when the page is loaded again, a hook instance whose list is the one
\* last written to the store (the write of its last mutation completed) holds
\* after the load the same records in the same order as before.
C24_LoadYieldsLastPersistedList ==
  [][Reload =>
       \A i \in Inst :
         storage = stringify(queue[i]) /\ queue[i] # <<>> => queue'[i] = queue[i]]_vars

\* C25: a load that finds the stored value missing or unreadable raises
\* nothing: the hook's list is empty and isPending is false after it.
C25_LoadOfMissingOrUnreadableIsEmpty ==
  [][~parseOk(storage) /\ QReload =>
       /\ queue'[H] = <<>>
       /\ ~isPending'[H]
       /\ ~dirty'[H]]_vars

\* C25 happens: the page held records, the store was lost and the page was
\* loaded again
C25_Witness ==
  /\ last.op = "mount"
  /\ ~last.found
  /\ last.dropped > 0
  /\ queue[H] = <<>>
  /\ ~isPending[H]

(***************************************************************************)
(* The jumps of a session                                                  *)
(***************************************************************************)
\* jumps that have reached the rolling buffer: all but the waiting ones and
\* the batches whose microtask has not run yet
flushedJumps == totalJumps - Len(pendingJumps) - BatchSize * Len(jumpTasks)

\* C26: after any sequence of jumps fewer than 10 jumps wait unflushed, the
\* jumps that reached the rolling buffer are whole groups of 10 in arrival
\* order, and the buffer holds the most recent 50 of them at most
C26_JumpsAreFlushedByTens ==
  /\ Len(pendingJumps) < BatchSize
  /\ \A i \in 1..Len(pendingJumps) :
       pendingJumps[i].n = totalJumps - Len(pendingJumps) + i
  /\ flushedJumps % BatchSize = 0
  /\ Len(processedJumps) = IF flushedJumps < ProcessedKept THEN flushedJumps
                           ELSE ProcessedKept
  /\ \A i \in 1..Len(processedJumps) :
       processedJumps[i].n = flushedJumps - Len(processedJumps) + i

\* C26 witness: six batches were flushed, the first of them has left the
\* buffer of 50, and another jump is waiting
C26_Witness ==
  /\ Len(processedJumps) = ProcessedKept
  /\ processedJumps[1].n = BatchSize + 1
  /\ pendingJumps # <<>>

\* C27: end-game takes the score and the jump count the session has when the
\* collision is detected, and from then on no jump or frame changes the
\* session's score, totalJumps or jumps
C27_EndGameFreezesTheSession ==
  [][/\ Collision =>
          gameState' = [gameState EXCEPT !.isPlaying = FALSE, !.isGameOver = TRUE]
     /\ gameState.isGameOver /\ (HandleJump \/ PlayFrame) =>
          /\ gameState'.score = gameState.score
          /\ gameState'.totalJumps = gameState.totalJumps
          /\ gameState'.jumps = gameState.jumps]_vars

\* C28: while a session is playing its score changes only in a frame, and by
\* 0 or 1 upwards
C28_ScoreNeverDecreasesWhilePlaying ==
  [][gameState.isPlaying /\ gameState'.isPlaying =>
       /\ gameState'.score \in {gameState.score, gameState.score + 1}
       /\ gameState'.score # gameState.score => PlayFrame]_vars

\* C28 witness: a frame has scored in a session that has jumps
C28_Witness ==
  /\ gameState.isPlaying
  /\ gameState.score = 1
  /\ gameState.totalJumps > 0
  /\ velocity = "falling"

(***************************************************************************)
(* Gas of a submission                                                     *)
(***************************************************************************)
\* C29: when estimateGas fails, whatever the error, the call goes on to send
\* the transaction with the fixed gas limit of 1,000,000
C29_FailedEstimateFallsBackAndSends ==
  [][\A o \in Failures :
       EstimateGas(o) => sPc' = "send" /\ gasLimit' = FallbackGasLimit]_vars

\* q is floor(a / b): the one integer with q * b <= a < (q + 1) * b
isFloor(q, a, b) == q * b <= a /\ a < (q + 1) * b

C35_ConfirmedStaysAndOtherFieldsMerge ==
  [][\A id \in HarnessIds, u \in HarnessUpdates :
       LET index == findIndex(queue[H], id) IN
       /\ last'.op = "updateTransaction"
       /\ index # 0
       /\ "status" \in DOMAIN u
       /\ u.status = "pending"
       /\ queue[H][index].status = "confirmed"
       /\ UpdateTransaction(H, id, u)
       => /\ queue'[H][index].status = "confirmed"
          /\ \A f \in Fields \ {"status"} :
               queue'[H][index][f] = IF f \in DOMAIN u THEN u[f] ELSE queue[H][index][f]
          /\ \A k \in 1..Len(queue[H]) : k # index => queue'[H][k] = queue[H][k]
          /\ Len(queue'[H]) = Len(queue[H])]_vars

\* C35 happens: the last call asked a confirmed record to be pending with a
\* hash; the record is confirmed and has the hash
C35_Witness ==
  /\ last.op = "updateTransaction"
  /\ last.guarded
  /\ \E k \in 1..Len(queue[H]) :
       queue[H][k].status = "confirmed" /\ queue[H][k].hash = TxHash

(***************************************************************************)
(* The leaderboard's contributions                                         *)
(***************************************************************************)
\* the exposed entry stands for game g of the contract
fromChain(entry, game) == entry.gameId = game.gameId /\ entry.address = game.player

\* C31: every exposed entry that comes from the contract belongs to a game
\* with ended = true and a score above 0
C31_OnChainEntriesAreEndedGames ==
  \A k \in 1..Len(entries), g \in 1..Len(leaderboardGames) :
    fromChain(entries[k], leaderboardGames[g]) =>
      leaderboardGames[g].ended /\ leaderboardGames[g].finalScore > 0

\* the records of type 'jump' in the list of hook instance i
jumpRecords(i) == SelectSeq(queue[i], LAMBDA tx : tx.type = "jump")

\* C32: after n jumps the lists hold floor(n / 10) jump records, all of them
\* confirmed batch records, and none for a single jump
C32_OnlyBatchesAreRecorded ==
  /\ \A i \in Inst : \A k \in 1..Len(jumpRecords(i)) :
       /\ jumpRecords(i)[k].data.tag = "batch"
       /\ jumpRecords(i)[k].status = "confirmed"
  /\ Len(jumpRecords("game")) + Len(jumpRecords("contract"))
       + Len(jumpRecords("wallet")) + Len(jumpRecords("cwallet"))
     = totalJumps \div BatchSize

\* C33: the record list is one shared list: every hook instance holds the
\* same records and the same isPending
C33_OneSharedList ==
  \A i, j \in Inst : queue[i] = queue[j] /\ isPending[i] = isPending[j]

(***************************************************************************)
(* Progress of the page: every awaited call of the provider or the wallet  *)
(* resolves, rejects or times out, and React runs its effects and timers   *)
(***************************************************************************)
PageStep(A) == A /\ UNCHANGED wvars /\ UNCHANGED svars /\ UNCHANGED bvars /\ UNCHANGED jvars
WalletStep(A) == A /\ UNCHANGED svars /\ UNCHANGED bvars /\ UNCHANGED jvars

Fairness ==
  /\ WF_vars(PageStep(ReconnectDone))
  /\ WF_vars(PageStep(StartSwitchDone))
  /\ WF_vars(PageStep(StartSubmitDone))
  /\ WF_vars(PageStep(StartWaitDone))
  /\ WF_vars(PageStep(StartCountdownDone))
  /\ WF_vars(PageStep(EndSwitchDone))
  /\ WF_vars(PageStep(EndVerifyDone))
  /\ WF_vars(PageStep(EndSubmitDone))
  /\ WF_vars(PageStep(EndWaitDone))
  /\ WF_vars(WalletStep(WalletCreateDone))
  /\ WF_vars(WalletStep(WalletBalanceDone))
  /\ WF_vars(WalletStep(FundBalanceDone))
  /\ WF_vars(WalletStep(FundSendDone))
  /\ WF_vars(WalletStep(FundWaitDone))
  /\ WF_vars(WalletStep(PageSaveEffect))
  /\ WF_vars(WalletStep(PageForcedSaveTimeout))

\* the page stays loaded: a reload abandons the calls that are awaited
StayNext == Next /\ ~WalletStep(Reload)

SpecLive == Init /\ [][StayNext]_vars /\ Fairness

\* C34: every record enqueued as pending is confirmed or failed in the end:
\* whenever a list holds a pending record, later no list holds one and Game's
\* isPending is false, so that handleStartGame goes ahead
C34_PendingRecordsAreSettled ==
  anyPending ~> (~anyPending /\ ~isPending["game"])

\* the confirmed end records with a finalScore and a gameId in the stored list
\* the leaderboard reads, and the local scores that carry a score
scoredEnds ==
  IF ~parseOk(fuseQueue) THEN <<>>
  ELSE SelectSeq(parse(fuseQueue),
         LAMBDA tx : /\ tx.type = "end" /\ tx.status = "confirmed"
                     /\ tx.data.finalScore # NoScore /\ tx.data.gameId # 0)

storedScores ==
  IF ~parseOk(fuseScores) THEN <<>>
  ELSE SelectSeq(parse(fuseScores), LAMBDA score : score.score # NoScore)

endedIds == {scoredEnds[k].data.gameId : k \in 1..Len(scoredEnds)}

isTopScore(gameId, s) ==
  /\ \E k \in 1..Len(scoredEnds) :
       scoredEnds[k].data.gameId = gameId /\ scoredEnds[k].data.finalScore = s
  /\ \A k \in 1..Len(scoredEnds) :
       scoredEnds[k].data.gameId = gameId => scoredEnds[k].data.finalScore <= s

scoresOf(list) == {list[k].score : k \in 1..Len(list)}

\* how many members of list have the score s
scoreCount(list, s) == Cardinality({k \in 1..Len(list) : list[k].score = s})

chainEntries == leaderboardData(leaderboardGames, now)

mergedTotal == Len(chainEntries) + Cardinality(endedIds) + Len(storedScores)

attempts == SelectSeq(trace, LAMBDA e : e[1] \in {"probed", "probeFailed"})

\* the awaits a call still has in front of it on its endpoint
stagesLeft ==
  [probe |-> 7, nonce |-> 6, fee |-> 5, balance |-> 4, estimate |-> 3,
   send |-> 2, wait |-> 1, done |-> 0, idle |-> 0]

\* what a call can still do: the endpoints after the current one, then the
\* awaits left on the current one
stepsLeft == (Len(RPC_ENDPOINTS) - 1 - currentEndpoint) * 8 + stagesLeft[sPc]

\* C37: every call of sendTransactionWithRetry terminates after at most one
\* attempt per configured endpoint: from one attempt to the next the endpoint
\* index strictly increases, no endpoint is attempted twice within a call,
\* and every step of a call leaves it strictly less to do.
C37_OneAttemptPerEndpoint ==
  /\ [](/\ Len(attempts) <= Len(RPC_ENDPOINTS)
        /\ \A k \in 1..Len(attempts) : attempts[k][2] \in 0..(Len(RPC_ENDPOINTS) - 1)
        /\ \A j, k \in 1..Len(attempts) : j < k => attempts[j][2] < attempts[k][2]
        /\ currentEndpoint \in 0..(Len(RPC_ENDPOINTS) - 1))
  /\ [][sPc \notin {"idle", "done"} =>
         /\ stepsLeft' < stepsLeft
         /\ stepsLeft' >= 0
         /\ currentEndpoint' # currentEndpoint =>
              /\ currentEndpoint' = currentEndpoint + 1
              /\ sPc' = "probe"]_vars

\* a call that has made an attempt on every endpoint and has returned
C37_Witness ==
  /\ sPc = "done"
  /\ Len(attempts) = Len(RPC_ENDPOINTS)
  /\ \E k \in 1..Len(caught) : caught[k].retried


\* the entries of the local-scores store for gameId
scoresFor(scores, gameId) == SelectSeq(scores, LAMBDA e : e.gameId = gameId)

\* the localOnly end records of a list for gameId
localOnlyFor(txs, gameId) ==
  SelectSeq(txs, LAMBDA tx : tx.type = "end" /\ tx.data.localOnly
                              /\ tx.data.gameId = gameId)

\* C38: each end-game invocation adds at most one entry for its gameId to
\* the local-scores store and at most one localOnly end record to the queue,
\* whether the chain write succeeds or fails.  (An invocation writes to the
\* store only in the step it returns with.)
C38_OneLocalEntryPerEndGame ==
  [][localScores' # localScores =>
       \A gameId \in 1..MaxGames :
         /\ Len(scoresFor(localScores', gameId))
              <= Len(scoresFor(localScores, gameId)) + 1
         /\ Len(localOnlyFor(queue'["contract"], gameId))
              <= Len(localOnlyFor(queue["contract"], gameId)) + 1]_vars


(***************************************************************************)
(* Sessions one after the other: a session is played, ended, and the next  *)
(* one starts (handleStartGame, Game.tsx:362-481), on the same page or on  *)
(* the page loaded again.                                                  *)
(***************************************************************************)
\* variant: the wallet hook's jump state outlives the page
SessionReloadKeepingJumps ==
  /\ Reload
  /\ velocity' = "0"
  /\ hasStartedMoving' = FALSE
  /\ loopState' = INITIAL_STATE
  /\ UNCHANGED <<pendingJumps, processedJumps, totalJumps, jumpTasks>>

\* the page is loaded again: useState([]) , useState([]), useState(0) of
\* useCustodialWallet.ts:29-31 and the useState of Game.tsx:99-103
SessionReload ==
  /\ Reload
  /\ velocity' = "0"
  /\ hasStartedMoving' = FALSE
  /\ loopState' = INITIAL_STATE
  /\ pendingJumps' = <<>>
  /\ processedJumps' = <<>>
  /\ totalJumps' = 0
  /\ jumpTasks' = <<>>

\* handleStartGame: setHasStartedMoving(false) once the pending check is passed
SessionStart ==
  /\ HandleStartGame
  /\ hasStartedMoving' = (hasStartedMoving /\ hasPending(queue["game"]))
  /\ UNCHANGED <<pendingJumps, processedJumps, totalJumps, jumpTasks, velocity, loopState>>

\* the countdown is over and the gameLoop effect runs for the new session
SessionPlaying ==
  /\ StartCountdownDone
  /\ loopState' = gameState'
  /\ UNCHANGED <<pendingJumps, processedJumps, totalJumps, jumpTasks, velocity,
                 hasStartedMoving>>

MaxSessionJumps == 11  \* jumps of a session that is followed by another

SessNext ==
  \/ JumpBatchTask /\ PlayRest
  \/ NoMicrotask /\ gameState.totalJumps < MaxSessionJumps /\ HandleJump /\ PlayRest
  \/ NoMicrotask /\ PlayFrame /\ PlayRest
  \/ NoMicrotask /\ Collision /\ PlayRest
  \/ NoMicrotask /\ EndSwitchDone /\ PlayRest /\ UNCHANGED jvars
  \/ NoMicrotask /\ EndVerifyDone /\ PlayRest /\ UNCHANGED jvars
  \/ NoMicrotask /\ EndSubmitDone /\ PlayRest /\ UNCHANGED jvars
  \/ NoMicrotask /\ EndWaitDone /\ PlayRest /\ UNCHANGED jvars
  \/ NoMicrotask /\ PlayAgain /\ PlayRest
  \/ NoMicrotask /\ PageSaveEffect /\ UNCHANGED svars /\ UNCHANGED bvars /\ UNCHANGED jvars
  \/ NoMicrotask /\ SessionReload /\ UNCHANGED svars /\ UNCHANGED bvars
  \/ NoMicrotask /\ ConnectWallet /\ PlayRest /\ UNCHANGED jvars
  \/ NoMicrotask /\ SessionStart /\ PlayRest
  \/ NoMicrotask /\ StartSwitchDone /\ PlayRest /\ UNCHANGED jvars
  \/ NoMicrotask /\ StartSubmitDone /\ PlayRest /\ UNCHANGED jvars
  \/ NoMicrotask /\ StartWaitDone /\ PlayRest /\ UNCHANGED jvars
  \/ NoMicrotask /\ SessionPlaying /\ PlayRest

SpecSessions == PInit /\ [][SessNext]_vars

====
